---- MODULE Spec2Model ----
(***************************************************************************)
(* A model of src/pages/ChatPage.tsx: the chat page of the code-generation *)
(* frontend.  The React state and refs of the component are the variables, *)
(* every async callback is a process whose position is a pc variable, and  *)
(* every await on the network is a point where other callbacks interleave. *)
(*                                                                         *)
(* Text is modelled as a sequence of atoms.  The atoms of a streamed body: *)
(*   "N"  the newline character                                            *)
(*   "P"  the prefix `data: `                                              *)
(*   "O"  the JSON opening  {"content":"                                   *)
(*   "C"  the JSON closing  "}                                             *)
(*   "a", "b"  characters of a content string                              *)
(*   "M"  the JSON text {"message":"m","projectId":7}: a progress event,   *)
(*        an object without a content field                                *)
(*   "X"  text that is not JSON                                            *)
(* A chunk boundary may fall between any two atoms of the body.            *)
(***************************************************************************)
EXTENDS Integers, Sequences, FiniteSets, TLC

\* ---------------------------------------------------------------- bounds
\* lines in one streamed response body
MaxLines == 2
\* submit cycles started in one run
MaxSubmits == 2
\* firings of build-progress intervals in one run
MaxTicks == 1
\* messages a history endpoint returns
MaxHistory == 2
\* clicks on the clear button in one run
MaxClears == 1
\* clicks on the refresh button in one run
MaxRefreshes == 1
\* retryConnection calls per run
MaxRetries == 1
\* Enter key presses in the textarea in one run
MaxKeys == 2

\* ------------------------------------------------------- program constants
\* pollProjectStatus(projId, maxAttempts = 30)
maxAttempts == 30
\* buildSteps.length: the five build steps of the useState initializer
NumBuildSteps == 5

Null == "null"
ContentChars == {"a", "b"}
\* the project id of the page (location.state.projectId) and another project
PageProject == "p42"
OtherProject == "p7"

\* ------------------------------------------------------------ text model
\* the first index of atom c in s, 0 when absent (String.indexOf + 1)
IndexOf(s, c) ==
  IF \E i \in 1..Len(s) : s[i] = c
  THEN CHOOSE i \in 1..Len(s) : s[i] = c /\ \A j \in 1..(i-1) : s[j] # c
  ELSE 0

RECURSIVE SplitLines(_)
\* text.split('\n')
SplitLines(s) ==
  LET i == IndexOf(s, "N") IN
  IF i = 0 THEN <<s>>
  ELSE <<SubSeq(s, 1, i-1)>> \o SplitLines(SubSeq(s, i+1, Len(s)))

\* line.startsWith('data: ')
StartsWithData(line) == Len(line) >= 1 /\ line[1] = "P"

\* line.slice(6)
SlicePrefix(line) == Tail(line)

\* JSON.parse(payload): ok is FALSE when it throws
JSONParse(payload) ==
  IF payload = <<"M">>
  THEN [ok |-> TRUE, content |-> <<>>, message |-> TRUE, projectId |-> OtherProject]
  ELSE IF /\ Len(payload) >= 2
          /\ payload[1] = "O"
          /\ payload[Len(payload)] = "C"
          /\ \A i \in 2..(Len(payload)-1) : payload[i] \in ContentChars
  THEN [ok |-> TRUE, content |-> SubSeq(payload, 2, Len(payload)-1),
        message |-> FALSE, projectId |-> Null]
  ELSE [ok |-> FALSE, content |-> <<>>, message |-> FALSE, projectId |-> Null]

\* a faulty accumulator: the new fragment is put in front
AccumulatePrepends(acc, content) == content \o acc

\* accumulatedContent += data.content
Accumulate(acc, content) == acc \o content

\* the local variables of the read loop: the accumulator, lastProjectInfo,
\* whether the body of the for loop called setMessages, and whether an
\* exception left the for loop
LoopState(acc, info, wrote) ==
  [acc |-> acc, info |-> info, wrote |-> wrote, threw |-> FALSE]

\* a faulty iteration: a payload that does not parse resets the accumulator
\* and is written to the message
ProcessLineResetsOnBadJSON(st, line) ==
  IF ~StartsWithData(line) THEN st
  ELSE LET data == JSONParse(SlicePrefix(line)) IN
       IF ~data.ok THEN LoopState(<<>>, st.info, TRUE)
       ELSE LET info == IF data.message /\ data.projectId # Null
                        THEN data.projectId ELSE st.info
            IN IF data.content # <<>>
               THEN LoopState(Accumulate(st.acc, data.content), info, TRUE)
               ELSE LoopState(st.acc, info, st.wrote)

\* a faulty iteration: without the inner try block a payload that does not
\* parse throws out of the for loop
ProcessLineRethrows(st, line) ==
  IF ~StartsWithData(line) THEN st
  ELSE LET data == JSONParse(SlicePrefix(line)) IN
       IF ~data.ok THEN [st EXCEPT !.threw = TRUE]
       ELSE LET info == IF data.message /\ data.projectId # Null
                        THEN data.projectId ELSE st.info
            IN IF data.content # <<>>
               THEN LoopState(Accumulate(st.acc, data.content), info, TRUE)
               ELSE LoopState(st.acc, info, st.wrote)

\* one iteration of `for (const line of lines)`: the inner try block catches
\* what JSON.parse and the property reads throw
ProcessLine(st, line) ==
  IF ~StartsWithData(line) THEN st
  ELSE LET data == JSONParse(SlicePrefix(line)) IN
       IF ~data.ok THEN st
       ELSE LET info == IF data.message /\ data.projectId # Null
                        THEN data.projectId ELSE st.info
            IN IF data.content # <<>>
               THEN LoopState(Accumulate(st.acc, data.content), info, TRUE)
               ELSE LoopState(st.acc, info, st.wrote)

RECURSIVE ProcessLines(_, _)
ProcessLines(st, lines) ==
  IF lines = <<>> \/ st.threw THEN st
  ELSE ProcessLines(ProcessLine(st, Head(lines)), Tail(lines))

\* the body of the while loop for one decoded chunk
ProcessChunk(st, chunk) == ProcessLines(st, SplitLines(chunk))


\* ------------------------------------------------------------- the page
VARIABLES
  env,      \* what the backend may answer in this run (fixed by Init)
  nav,      \* location.state: prompt, projectId, existingProject, sessionId
  page,     \* "mounted", "crashed" (a render threw) or "left" (navigate("/"))
  now,      \* Date.now(), advanced by every task that creates a message
  st,       \* the component: its React state, its refs and its timers
  sub,      \* the running handleSubmit call and what its closure captured
  stream,   \* the response body being read and the locals of the read loop
  clr,      \* the running clearConversation call, and the calls made so far
  task,     \* the calls that run the initialization code, see Tasks
  poller,   \* the poll loop each of them started through fetchReadyProject
  streamReqs,  \* the bodies of the POST /modify/stream requests issued so far
  issued,   \* how many requests of each kind the initialization code has issued
  submits,  \* handleSubmit calls started so far
  keys,     \* Enter key presses the textarea has handled so far
  ticks     \* firings of build-progress intervals so far

vars == <<env, nav, page, now, st, sub, stream, clr, task, poller, streamReqs, issued,
          submits, keys, ticks>>

NoId == <<"none", 0>>
NoProject == [id |-> Null, status |-> Null, deploymentUrl |-> Null]

\* the useState initial values, the useRef initial values, and no timer
InitialState ==
  [ messages |-> <<>>, prompt |-> "", isLoading |-> FALSE, previewUrl |-> "",
    error |-> "", projectStatus |-> "idle", sessionId |-> Null,
    currentSummary |-> Null, conversationStats |-> Null,
    isStreamingResponse |-> FALSE, hasSessionSupport |-> TRUE,
    isServerHealthy |-> Null, isRetrying |-> FALSE, currentProject |-> NoProject,
    showBuildProgress |-> FALSE,
    currentProjectInfo |-> Null,     \* currentProjectInfo.id
    hasInitialized |-> FALSE, isGenerating |-> FALSE, currentProjectId |-> Null,
    messageCountRef |-> 0, sessionInitialized |-> FALSE, projectLoaded |-> FALSE,
    healthCheckDone |-> FALSE,
    buildProgressInterval |-> 0,     \* the handle in the ref, 0 for null
    intervals |-> <<>>,              \* the live setInterval timers
    timerSeq |-> 0,                  \* timer handles given out so far
    hideTimers |-> 0,                \* pending setTimeout(setShowBuildProgress(false))
    \* the dependencies the initialization effect last ran with, as recorded
    \* when retryConnection resets hasInitialized
    effectDeps |-> <<Null, Null, TRUE, "idle", "">> ]

\* ------------------------------------------------------------- messages
\* a Message object; isStreaming is undefined (falsy) unless given
Message(kind, t, type, content, streaming) ==
  [id |-> <<kind, t>>, type |-> type, content |-> content, isStreaming |-> streaming]

\* setMessages(prev => [...prev, m])
AppendMessage(s, m) == [s EXCEPT !.messages = Append(@, m)]

\* a faulty update: the content is written to every message
SetContentOfAll(msgs, id, content) ==
  [i \in DOMAIN msgs |-> [msgs[i] EXCEPT !.content = content]]

\* prev.map(msg => msg.id === id ? { ...msg, content } : msg)
SetContent(msgs, id, content) ==
  [i \in DOMAIN msgs |->
     IF msgs[i].id = id THEN [msgs[i] EXCEPT !.content = content] ELSE msgs[i]]

\* a faulty finalization: the flag is left as it is
FinalizeMessageKeepsFlag(msgs, id) == msgs

\* prev.map(msg => msg.id === id ? { ...msg, isStreaming: false } : msg)
FinalizeMessage(msgs, id) ==
  [i \in DOMAIN msgs |->
     IF msgs[i].id = id THEN [msgs[i] EXCEPT !.isStreaming = FALSE] ELSE msgs[i]]

\* prompt.trim(): "ws" is a prompt of white space only
Trim(p) == IF p = "ws" THEN "" ELSE p

\* sessionId.startsWith('temp-'), sessionId.startsWith('project-')
StartsWithTemp(s) == s = "temp-t"
StartsWithProject(s) == s = "project-p42"

\* the texts of the synthesized messages
StreamErrorText == <<"Sorry, I encountered an error while processing your request.">>
ApplyErrorText == <<"Sorry, I encountered an error while applying the changes.">>
UnavailableText == <<"This feature is currently unavailable.">>
ChangesAppliedText == <<"Changes applied successfully!">>

\* ------------------------------------------------------ the environment
\* what the user may type into the prompt box
Prompts == {"", "ws", "add a footer"}

\* the lines a backend may put into a streamed body
LineKinds == { <<"P", "O", "a", "C">>, <<"P", "O", "b", "C">>,
               <<"P", "M">>, <<"P", "X">>, <<"X">> }

RECURSIVE BodiesOf(_)
\* the bodies of exactly n lines, each line ended by a newline
BodiesOf(n) ==
  IF n = 0 THEN { <<>> }
  ELSE { b \o l \o <<"N">> : b \in BodiesOf(n-1), l \in LineKinds }

Bodies == UNION { BodiesOf(n) : n \in 0..MaxLines }

\* the project records GET /projects/{id} may return once a project is deployed
DeployedProjects ==
  { [id |-> PageProject, status |-> "ready", deploymentUrl |-> u] : u \in {"url1", "url2"} }

\* ------------------------------------------------------ build progress
\* clearInterval(handle)
ClearInterval(ivs, handle) == SelectSeq(ivs, LAMBDA iv : iv.id # handle)

StepText == <<"Analyzing Requirements", "Generating Code", "Styling Interface",
              "Optimizing Performance", "Deploying Project">>

\* startBuildProgress() at time t
StartBuildProgress(s, t) ==
  [s EXCEPT !.showBuildProgress = TRUE,
            !.messages = Append(@, Message("build-start", t, "system",
                                   <<"CodePup is starting to build your project!">>, FALSE)),
            !.intervals = Append(@, [id |-> s.timerSeq + 1, stepIndex |-> 0]),
            !.timerSeq = @ + 1,
            !.buildProgressInterval = s.timerSeq + 1]

\* stopBuildProgress()
StopBuildProgress(s) ==
  [s EXCEPT !.intervals = IF s.buildProgressInterval # 0
                          THEN ClearInterval(@, s.buildProgressInterval) ELSE @,
            !.buildProgressInterval = 0,
            !.showBuildProgress = FALSE]

\* the setInterval callback of startBuildProgress, for the i-th live interval
IntervalCallback(s, i, t) ==
  IF s.intervals[i].stepIndex < NumBuildSteps
  THEN [s EXCEPT !.messages = Append(@, Message("build-step", t, "system",
                                <<StepText[s.intervals[i].stepIndex + 1]>>, FALSE)),
                 !.intervals[i].stepIndex = @ + 1]
  ELSE [s EXCEPT !.messages = Append(@, Message("build-complete", t, "system",
                                <<"Build complete!">>, FALSE)),
                 !.intervals = IF s.buildProgressInterval # 0
                               THEN ClearInterval(@, s.buildProgressInterval) ELSE @,
                 !.buildProgressInterval = 0,
                 !.hideTimers = @ + 1]

\* one firing of a build-progress interval
BuildProgressTick ==
  /\ page = "mounted"
  /\ ticks < env.ticks
  /\ \E i \in DOMAIN st.intervals : st' = IntervalCallback(st, i, now)
  /\ now' = now + 2
  /\ ticks' = ticks + 1
  /\ UNCHANGED <<env, nav, keys, issued, page, sub, stream, clr, task, poller, streamReqs, submits>>

\* ------------------------------------------------------------ the input
\* the `disabled` expression of the textarea
TextareaDisabled(s) ==
  \/ s.isLoading
  \/ s.projectStatus = "loading"
  \/ s.projectStatus = "fetching"
  \/ s.isStreamingResponse
  \/ s.isServerHealthy = "false"
  \/ s.showBuildProgress
  \/ (s.currentProject # NoProject /\ s.currentProject.status # "ready")

\* the `disabled` expression of the submit button
SubmitDisabled(s) == Trim(s.prompt) = "" \/ TextareaDisabled(s)

\* handlePromptChange: the user edits the prompt
HandlePromptChange ==
  /\ page = "mounted"
  /\ task["init"].pc # "mount"
  /\ submits < env.cycles
  /\ ~TextareaDisabled(st)
  /\ \E p \in Prompts \ {st.prompt} : st' = [st EXCEPT !.prompt = p]
  /\ UNCHANGED <<env, nav, keys, issued, page, now, sub, stream, clr, task, poller, streamReqs, submits, ticks>>


\* ------------------------------------------------------- handleSubmit
NoClosure == [prompt |-> "", sessionId |-> Null, hasSessionSupport |-> FALSE,
              msgLen |-> 0, currentProjectInfo |-> Null, previewUrl |-> ""]
SubIdle == [pc |-> "idle", cl |-> NoClosure, placeholder |-> NoId]
NoStream == [body |-> <<>>, pos |-> 0, acc |-> <<>>, info |-> Null]

\* what the callbacks of one render close over (the dependency lists of the
\* useCallback hooks make handleSubmit see the state of the latest render)
Closure(s) ==
  [prompt |-> s.prompt, sessionId |-> s.sessionId,
   hasSessionSupport |-> s.hasSessionSupport, msgLen |-> Len(s.messages),
   currentProjectInfo |-> s.currentProjectInfo, previewUrl |-> s.previewUrl]

\* the condition of handleSubmit that selects the streaming endpoint
UseStreaming(cl) ==
  cl.hasSessionSupport /\ cl.sessionId # Null /\ ~StartsWithTemp(cl.sessionId)

\* a faulty body: the project id is always the one of the page
ModifyStreamBodyForPage(cl) ==
  [prompt |-> cl.prompt, sessionId |-> cl.sessionId, projectId |-> nav.projectId]

\* the JSON body of POST /modify/stream (the fields the backend keys on)
ModifyStreamBody(cl) ==
  [prompt |-> cl.prompt, sessionId |-> cl.sessionId,
   projectId |-> IF cl.currentProjectInfo # Null THEN cl.currentProjectInfo
                 ELSE nav.projectId]

\* handleStreamingResponse up to its fetch: the placeholder is appended
OpenStream(s, t) ==
  AppendMessage([s EXCEPT !.isStreamingResponse = TRUE],
                Message("streaming", t, "assistant", <<>>, TRUE))

\* the try block of handleSubmit up to its first network await, at time t
BeginTry(s, cl, t) ==
  /\ st' = IF UseStreaming(cl) THEN OpenStream(s, t) ELSE s
  /\ sub' = [pc |-> IF UseStreaming(cl) THEN "fetch" ELSE "modify", cl |-> cl,
             placeholder |-> IF UseStreaming(cl) THEN <<"streaming", t>> ELSE NoId]
  /\ streamReqs' = IF UseStreaming(cl) THEN Append(streamReqs, ModifyStreamBody(cl))
                   ELSE streamReqs

\* a faulty guard: every call of handleSubmit starts a cycle
SubmitGuardAbsent(s) == TRUE

\* the guard of handleSubmit: `!prompt.trim() || isLoading` makes it return
SubmitGuard(s) == Trim(s.prompt) # "" /\ ~s.isLoading

\* handleSubmit past its guard, up to its first network await
StartCycle ==
  /\ LET cl == Closure(st)
         s1 == StartBuildProgress([st EXCEPT !.isLoading = TRUE, !.error = ""], now)
         s2 == [AppendMessage(s1, Message("num", now, "user", <<cl.prompt>>, FALSE))
                  EXCEPT !.prompt = ""]
     IN IF nav.projectId = Null
        THEN BeginTry(s2, cl, now)
        ELSE /\ st' = s2
             /\ sub' = [pc |-> "saveUser", cl |-> cl, placeholder |-> NoId]
             /\ UNCHANGED streamReqs
  /\ now' = now + 2
  /\ submits' = submits + 1

\* handleSubmit from the click on the submit button to its first network await
HandleSubmit ==
  /\ page = "mounted"
  /\ task["init"].pc # "mount"
  /\ submits < env.cycles
  /\ ~SubmitDisabled(st)
  /\ SubmitGuard(st)
  /\ StartCycle
  /\ UNCHANGED <<env, nav, keys, issued, page, stream, clr, task, poller, ticks>>

\* handleKeyPress for Enter without Shift: the textarea takes key events only
\* while it is enabled; handleSubmit is called whatever the prompt is
HandleKeyPress ==
  /\ page = "mounted"
  /\ task["init"].pc # "mount"
  /\ keys < MaxKeys
  /\ ~TextareaDisabled(st)
  /\ IF SubmitGuard(st)
     THEN submits < env.cycles /\ StartCycle
     ELSE UNCHANGED <<st, sub, streamReqs, now, submits>>
  /\ keys' = keys + 1
  /\ UNCHANGED <<env, nav, issued, page, stream, clr, task, poller, ticks>>

\* a faulty saveMessage: a failed save is shown in the error state
SaveSettledLoud(s, ok) == IF ok THEN s ELSE [s EXCEPT !.error = "Could not save message"]

\* the component after the POST of saveMessage has settled: the catch block
\* only logs
SaveSettled(s, ok) == s

\* saveMessage(currentPrompt, 'user') settles
SaveUserSettles ==
  /\ page = "mounted"
  /\ sub.pc = "saveUser"
  /\ \E ok \in BOOLEAN : BeginTry(SaveSettled(st, ok), sub.cl, now)
  /\ now' = now + 2
  /\ UNCHANGED <<env, nav, keys, issued, page, stream, clr, task, poller, submits, ticks>>

\* checkAndUpdateSummary's condition for requesting an update
NeedsSummaryUpdate(s, cl) ==
  /\ cl.hasSessionSupport
  /\ cl.msgLen > 0 /\ cl.msgLen % 5 = 0 /\ cl.msgLen # s.messageCountRef

\* the finally block of handleSubmit
SubmitFinally(s) == StopBuildProgress([s EXCEPT !.isLoading = FALSE])

\* from the finally block of handleStreamingResponse to the next network await
AfterStreamState(s, cl) ==
  LET s1 == [s EXCEPT !.isStreamingResponse = FALSE]
  IN IF NeedsSummaryUpdate(s1, cl) THEN s1 ELSE SubmitFinally(s1)
AfterStreamPc(s, cl) == IF NeedsSummaryUpdate(s, cl) THEN "sumPost" ELSE "idle"

\* handleSubmit at position pc; when it has returned its locals are gone
SubAt(pc) == IF pc = "idle" THEN SubIdle ELSE [sub EXCEPT !.pc = pc]

\* the catch block of handleStreamingResponse.  streamingMessage is declared in
\* the try block and is not in scope here: the filter callback throws a
\* ReferenceError for the first message it is applied to, inside the state
\* updater, so the render throws; on an empty list the callback never runs.
StreamCatch(read) ==
  IF st.messages # <<>>
  THEN /\ page' = "crashed"
       /\ stream' = read
       /\ UNCHANGED <<st, sub, now>>
  ELSE /\ st' = AfterStreamState(
                  AppendMessage(st, Message("num", now + 1, "assistant",
                                            StreamErrorText, FALSE)), sub.cl)
       /\ sub' = SubAt(AfterStreamPc(st, sub.cl))
       /\ stream' = NoStream
       /\ now' = now + 2
       /\ UNCHANGED page

\* the fetch of POST /modify/stream settles
FetchSettles ==
  /\ page = "mounted"
  /\ sub.pc = "fetch"
  /\ \/ \E b \in env.bodies :
          /\ stream' = [body |-> b, pos |-> 0, acc |-> <<>>, info |-> Null]
          /\ sub' = [sub EXCEPT !.pc = "read"]
          /\ UNCHANGED <<st, page, now>>
     \/ \* the fetch rejects, response.ok is false, or response.body is null
        StreamCatch(stream)
  /\ UNCHANGED <<env, nav, keys, issued, clr, task, poller, streamReqs, submits, ticks>>

\* reader.read() resolves with the next k atoms of the body
ReadChunk ==
  /\ page = "mounted"
  /\ sub.pc = "read"
  /\ \E k \in 1..(Len(stream.body) - stream.pos) :
       LET chunk == SubSeq(stream.body, stream.pos + 1, stream.pos + k)
           r == ProcessChunk(LoopState(stream.acc, stream.info, FALSE), chunk)
       IN IF r.threw
          THEN StreamCatch([stream EXCEPT !.pos = @ + k])
          ELSE /\ stream' = [stream EXCEPT !.pos = @ + k, !.acc = r.acc, !.info = r.info]
               /\ st' = IF r.wrote
                        THEN [st EXCEPT !.messages = SetContent(@, sub.placeholder, r.acc)]
                        ELSE st
               /\ UNCHANGED <<page, now, sub>>
  /\ UNCHANGED <<env, nav, keys, issued, clr, task, poller, streamReqs, submits, ticks>>

\* reader.read() rejects
ReadFails ==
  /\ page = "mounted"
  /\ sub.pc = "read"
  /\ StreamCatch(stream)
  /\ UNCHANGED <<env, nav, keys, issued, clr, task, poller, streamReqs, submits, ticks>>

\* a faulty ending: the project info is updated but the message not finalized
FinishStreamLeavesFlag(s, info, id) ==
  [s EXCEPT !.currentProjectInfo = IF info # Null THEN info ELSE @]

\* the statements between the read loop and the await of refreshPreviewUrl
FinishStream(s, info, id) ==
  [s EXCEPT !.currentProjectInfo = IF info # Null THEN info ELSE @,
            !.messages = FinalizeMessage(@, id)]

\* reader.read() resolves with done: the message is finalized
ReadDone ==
  /\ page = "mounted"
  /\ sub.pc = "read"
  /\ stream.pos = Len(stream.body)
  /\ LET s1 == FinishStream(st, stream.info, sub.placeholder)
     IN IF nav.projectId = Null
        THEN /\ st' = AfterStreamState(s1, sub.cl)
             /\ sub' = SubAt(AfterStreamPc(s1, sub.cl))
             /\ stream' = NoStream
        ELSE /\ st' = s1
             /\ sub' = [sub EXCEPT !.pc = "refresh"]
             /\ UNCHANGED stream
  /\ UNCHANGED <<env, nav, keys, issued, page, now, clr, task, poller, streamReqs, submits, ticks>>


\* every record GET /projects/{id} may return for the page's project
ProjectRecords ==
  { [id |-> PageProject, status |-> x, deploymentUrl |-> u] :
      x \in {"pending", "building", "ready", "error", Null}, u \in {Null, "url1"} }

\* refreshPreviewUrl after its GET resolved with project p
RefreshPreviewUrl(s, cl, p) ==
  IF p.deploymentUrl # Null /\ p.deploymentUrl # cl.previewUrl
  THEN [s EXCEPT !.previewUrl = p.deploymentUrl, !.currentProject = p]
  ELSE s

\* the GET of refreshPreviewUrl settles after a stream: a failure is only logged
StreamRefreshSettles ==
  /\ page = "mounted"
  /\ sub.pc = "refresh"
  /\ \E p \in env.projects \cup {NoProject} :
       LET s1 == IF p = NoProject THEN st ELSE RefreshPreviewUrl(st, sub.cl, p)
       IN /\ st' = AfterStreamState(s1, sub.cl)
          /\ sub' = SubAt(AfterStreamPc(s1, sub.cl))
  /\ stream' = NoStream
  /\ UNCHANGED <<env, nav, keys, issued, page, now, clr, task, poller, streamReqs, submits, ticks>>

\* checkAndUpdateSummary: POST update_summary settles
SummaryPostSettles ==
  /\ page = "mounted"
  /\ sub.pc = "sumPost"
  /\ \/ /\ sub' = [sub EXCEPT !.pc = "sumLoad"]
        /\ UNCHANGED st
     \/ \* the POST fails: caught and logged, then the finally block of handleSubmit
        /\ st' = SubmitFinally(st)
        /\ sub' = SubIdle
  /\ UNCHANGED <<env, nav, keys, issued, page, now, stream, clr, task, poller, streamReqs, submits, ticks>>

\* checkAndUpdateSummary: loadCurrentSummary settles
SummaryLoadSettles ==
  /\ page = "mounted"
  /\ sub.pc = "sumLoad"
  /\ \E ok \in env.loads :
       st' = IF ok THEN [st EXCEPT !.currentSummary = "summary2"] ELSE st
  /\ sub' = [sub EXCEPT !.pc = "sumStats"]
  /\ UNCHANGED <<env, nav, keys, issued, page, now, stream, clr, task, poller, streamReqs, submits, ticks>>

\* checkAndUpdateSummary: loadConversationStats settles, the count is recorded
SummaryStatsSettles ==
  /\ page = "mounted"
  /\ sub.pc = "sumStats"
  /\ \E ok \in env.loads :
       st' = SubmitFinally(
               [st EXCEPT !.conversationStats = IF ok THEN "stats2" ELSE @,
                          !.messageCountRef = sub.cl.msgLen])
  /\ sub' = SubIdle
  /\ UNCHANGED <<env, nav, keys, issued, page, now, stream, clr, task, poller, streamReqs, submits, ticks>>

\* ------------------------------------------------ handleNonStreamingSubmit
\* the catch block of handleSubmit up to its await of saveMessage
SubmitCatch(s, t) ==
  AppendMessage([s EXCEPT !.error = "Failed to apply changes"],
                Message("num", t + 1, "assistant", ApplyErrorText, FALSE))

\* POST /modify resolves
ModifyResolves ==
  /\ page = "mounted"
  /\ sub.pc = "modify"
  /\ \E text \in {ChangesAppliedText, <<"reply">>}, pid \in {Null, PageProject, OtherProject} :
       LET s1 == [st EXCEPT !.currentProjectInfo = IF pid # Null THEN pid ELSE @]
           s2 == AppendMessage(s1, Message("num", now + 1, "assistant", text, FALSE))
       IN IF nav.projectId = Null
          THEN \* saveMessage and refreshPreviewUrl return at once
               /\ st' = SubmitFinally(s2)
               /\ sub' = SubIdle
          ELSE /\ st' = s2
               /\ sub' = [sub EXCEPT !.pc = "saveAssistant"]
  /\ now' = now + 2
  /\ UNCHANGED <<env, nav, keys, issued, page, stream, clr, task, poller, streamReqs, submits, ticks>>

\* POST /modify fails
ModifyFails ==
  /\ page = "mounted"
  /\ sub.pc = "modify"
  /\ \E text \in {ApplyErrorText, UnavailableText} :
       LET s1 == AppendMessage(st, Message("num", now + 1, "assistant", text, FALSE))
       IN IF nav.projectId = Null
          THEN \* saveMessage returns at once; the error is rethrown to handleSubmit
               /\ st' = SubmitFinally(SubmitCatch(s1, now))
               /\ sub' = SubIdle
          ELSE /\ st' = s1
               /\ sub' = [sub EXCEPT !.pc = "saveNonStreamingError"]
  /\ now' = now + 2
  /\ UNCHANGED <<env, nav, keys, issued, page, stream, clr, task, poller, streamReqs, submits, ticks>>

\* saveMessage(assistantMessage.content) settles, refreshPreviewUrl starts
SaveAssistantSettles ==
  /\ page = "mounted"
  /\ sub.pc = "saveAssistant"
  /\ \E ok \in BOOLEAN : st' = SaveSettled(st, ok)
  /\ sub' = [sub EXCEPT !.pc = "refreshNonStreaming"]
  /\ UNCHANGED <<env, nav, keys, issued, page, now, stream, clr, task, poller, streamReqs, submits, ticks>>

\* the GET of refreshPreviewUrl settles after a non-streaming reply
NonStreamingRefreshSettles ==
  /\ page = "mounted"
  /\ sub.pc = "refreshNonStreaming"
  /\ \E p \in env.projects \cup {NoProject} :
       st' = SubmitFinally(IF p = NoProject THEN st
                           ELSE RefreshPreviewUrl(st, sub.cl, p))
  /\ sub' = SubIdle
  /\ UNCHANGED <<env, nav, keys, issued, page, now, stream, clr, task, poller, streamReqs, submits, ticks>>

\* saveMessage in the catch block of handleNonStreamingSubmit settles; the
\* error is rethrown and caught by handleSubmit
SaveNonStreamingErrorSettles ==
  /\ page = "mounted"
  /\ sub.pc = "saveNonStreamingError"
  /\ \E ok \in BOOLEAN : st' = SubmitCatch(SaveSettled(st, ok), now)
  /\ sub' = [sub EXCEPT !.pc = "saveSubmitError"]
  /\ now' = now + 2
  /\ UNCHANGED <<env, nav, keys, issued, page, stream, clr, task, poller, streamReqs, submits, ticks>>

\* saveMessage in the catch block of handleSubmit settles
SaveSubmitErrorSettles ==
  /\ page = "mounted"
  /\ sub.pc = "saveSubmitError"
  /\ \E ok \in BOOLEAN : st' = SubmitFinally(SaveSettled(st, ok))
  /\ sub' = SubIdle
  /\ UNCHANGED <<env, nav, keys, issued, page, now, stream, clr, task, poller, streamReqs, submits, ticks>>

\* -------------------------------------------------- clearConversation
\* the closure's test for the session-scoped endpoints
SessionScoped(hasSupport, sid) ==
  hasSupport /\ sid # Null /\ ~StartsWithTemp(sid) /\ ~StartsWithProject(sid)

\* a faulty clearing: the recorded message count is kept
ClearedKeepsCount(s) ==
  [s EXCEPT !.messages = <<>>, !.currentSummary = Null, !.conversationStats = Null]

\* the state updates after the delete request
Cleared(s) ==
  [s EXCEPT !.messages = <<>>, !.currentSummary = Null, !.conversationStats = Null,
            !.messageCountRef = 0]

\* clearConversation from the click to its await
ClearConversation ==
  /\ page = "mounted"
  /\ task["init"].pc # "mount"
  /\ clr.pc = "idle"
  /\ clr.runs < env.clears
  /\ IF st.sessionId = Null
     THEN \* `if (!sessionId) return`
          clr' = [clr EXCEPT !.runs = @ + 1] /\ UNCHANGED st
     ELSE IF SessionScoped(st.hasSessionSupport, st.sessionId) \/ nav.projectId # Null
     THEN clr' = [pc |-> "delete", runs |-> clr.runs + 1] /\ UNCHANGED st
     ELSE clr' = [clr EXCEPT !.runs = @ + 1] /\ st' = Cleared(st)
  /\ UNCHANGED <<env, nav, keys, issued, page, now, sub, stream, task, poller, streamReqs, submits, ticks>>

\* the delete request of clearConversation settles
ClearSettles ==
  /\ page = "mounted"
  /\ clr.pc = "delete"
  /\ \E ok \in BOOLEAN :
       st' = IF ok THEN Cleared(st)
             ELSE [st EXCEPT !.error = "Failed to clear conversation"]
  /\ clr' = [clr EXCEPT !.pc = "idle"]
  /\ UNCHANGED <<env, nav, keys, issued, page, now, sub, stream, task, poller, streamReqs, submits, ticks>>


\* ------------------------------------------- initialization and project
\* Each of these operators runs a callback from one await to the next and
\* yields the component after it, the position reached, and whether the
\* page is still mounted.
At(s, pc) ==
  [s |-> s, pc |-> pc, page |-> "mounted", poll |-> FALSE, via |-> "same", got |-> "same"]

\* the cleanup of the unmount effect: the interval in the ref is cleared
Unmount(s) ==
  [s EXCEPT !.intervals = IF s.buildProgressInterval # 0
                          THEN ClearInterval(@, s.buildProgressInterval) ELSE @]

\* navigate("/") followed by return
Leave(s) ==
  [s |-> Unmount(s), pc |-> "done", page |-> "left", poll |-> FALSE, via |-> "same",
   got |-> "same"]

\* the calls that run the initialization code: the effect at mount, the
\* effect when it runs again, refreshProject and retryConnection
Tasks == {"init", "rerun", "refresh", "retry"}

NoTaskClosure == [sessionId |-> Null, hasSessionSupport |-> TRUE,
                  projectStatus |-> "idle", isServerHealthy |-> Null]
\* `got` is what the GET after a failed generation answered ("none" before)
TaskIdle == [pc |-> "idle", kind |-> "none", via |-> "none", cl |-> NoTaskClosure,
             runs |-> 0, got |-> "none"]
\* a poll loop: where it is, the requests it has issued (`attempts`), and
\* what its last request got ("none" before the first answer)
PollerIdle == [pc |-> "idle", attempts |-> 0, got |-> "none"]

\* what the callbacks of the render of state s close over
TaskClosure(s) ==
  [sessionId |-> s.sessionId, hasSessionSupport |-> s.hasSessionSupport,
   projectStatus |-> s.projectStatus, isServerHealthy |-> s.isServerHealthy]

\* verifyProjectByUrl up to its GET; without a deployed URL or a stored project
\* id it returns at once and changes nothing
StartVerify(s, k) ==
  IF nav.storedProject THEN At(s, "verify")
  ELSE IF k = "full" THEN At(s, "tail") ELSE At(s, "done")

\* generateCode without the isGenerating test of lines 722-725
StartGenerateUnguarded(s, t) ==
  At(StartBuildProgress([s EXCEPT !.isGenerating = TRUE, !.error = "",
                                  !.projectStatus = "loading"], t),
     "generate")

\* generateCode up to its POST, at time t
StartGenerate(s, t) ==
  IF s.isGenerating THEN At(s, "generated")
  ELSE At(StartBuildProgress([s EXCEPT !.isGenerating = TRUE, !.error = "",
                                       !.projectStatus = "loading"], t),
          "generate")

\* fetchReadyProject(projectId) up to its GET
StartFetch(s, cl) ==
  IF s.currentProjectId = nav.projectId /\ cl.projectStatus # "idle"
  THEN At(s, "fetched")
  ELSE At([s EXCEPT !.error = "", !.projectStatus = "fetching",
                    !.currentProjectId = nav.projectId], "fetchProject")

\* what follows `await fetchReadyProject(projectId)` in the caller of kind k
AfterFetch(s, k) ==
  IF k = "preview" THEN StartVerify(s, k)
  ELSE IF k = "retry" THEN At(s, "retryEnd")
  ELSE At(s, "done")

\* what follows `await generateCode(...)`: the caller is fetchReadyProject
\* (via = "fetch") or the initialization itself
AfterGenerate(s, k, via) ==
  IF via = "fetch" THEN AfterFetch(s, k)
  ELSE IF k = "retry" THEN At(s, "retryEnd")
  ELSE At(s, "done")

\* positions that are passed without an await are resolved at once
RECURSIVE Settle(_, _, _, _, _)
Settle(r, k, via, cl, t) ==
  IF r.page # "mounted" THEN r
  ELSE IF r.pc = "fetched"
  THEN [Settle(AfterFetch(r.s, k), k, via, cl, t) EXCEPT !.poll = r.poll]
  ELSE IF r.pc = "generated" THEN Settle(AfterGenerate(r.s, k, via), k, via, cl, t)
  ELSE IF r.pc = "tail"
  THEN \* the last branch of initializeWithHealthCheck
       IF nav.existingProject /\ nav.projectId # Null
       THEN Settle(StartFetch(r.s, cl), k, "none", cl, t)
       ELSE IF nav.prompt # Null /\ nav.projectId # Null
       THEN Settle([StartGenerate([r.s EXCEPT !.prompt = nav.prompt], t)
                      EXCEPT !.via = "none"], k, "none", cl, t)
       ELSE At([r.s EXCEPT !.projectStatus = "idle"], "done")
  ELSE IF r.pc = "retryTail"
  THEN \* retryConnection after initializeSession
       IF nav.existingProject /\ nav.projectId # Null
       THEN Settle(StartFetch(r.s, cl), k, "none", cl, t)
       ELSE IF nav.prompt # Null /\ nav.projectId # Null
       THEN Settle([StartGenerate([r.s EXCEPT !.prompt = nav.prompt], t)
                      EXCEPT !.via = "none"], k, "none", cl, t)
       ELSE Settle(At([r.s EXCEPT !.projectStatus = "idle"], "retryEnd"), k, via, cl, t)
  ELSE IF r.pc = "retryEnd"
  THEN \* hasInitialized.current = true, and the finally block
       At([r.s EXCEPT !.hasInitialized = TRUE, !.isRetrying = FALSE], "done")
  ELSE r

\* what follows `await initializeSession()` in the caller of kind k
AfterSession(s, k, cl) ==
  IF k = "full" THEN StartVerify(s, k)
  ELSE IF k = "retry" THEN At(s, "retryTail")
  ELSE StartFetch(s, cl)

\* initializeSession after the session id is known: which history is loaded
LoadHistoryFor(s, sid, k, cl) ==
  IF sid # Null /\ cl.hasSessionSupport /\ ~StartsWithTemp(sid) /\ ~StartsWithProject(sid)
  THEN At(s, "history")
  ELSE IF nav.projectId # Null /\ ~s.projectLoaded
  THEN At(s, "projectMessages")
  ELSE AfterSession(s, k, cl)

\* initializeSession up to its first await
StartSession(s, k, cl) ==
  IF s.sessionInitialized THEN AfterSession(s, k, cl)
  ELSE LET sid == IF nav.sessionId # Null THEN nav.sessionId ELSE cl.sessionId
       IN IF sid = Null THEN At(s, "create")
          ELSE LoadHistoryFor([s EXCEPT !.sessionInitialized = TRUE], sid, k, cl)

\* checkServerHealth up to its GET, and the caller's reaction when it returns
\* the closure's isServerHealthy without asking
StartHealth(s, k, cl) ==
  IF ~s.healthCheckDone THEN At(s, "health")
  ELSE IF cl.isServerHealthy = "true" THEN StartSession(s, k, cl)
  ELSE IF k = "full" THEN At([s EXCEPT !.projectStatus = "error"], "done")
  ELSE IF k = "retry" THEN At([s EXCEPT !.isRetrying = FALSE], "done")
  ELSE At(s, "done")

\* the positions of a task at which a request of its own is in flight
Requests == {"health", "create", "history", "summary", "stats", "projectMessages",
             "verify", "fetchProject", "generate", "generatePut", "generateGet",
             "generateFailed"}

\* the count of requests after a task went from position `from` to `to`
Issue(from, to) ==
  IF to \in Requests /\ to # from THEN [issued EXCEPT ![to] = @ + 1] ELSE issued

\* the task moves to where r says; the clock has advanced if the step read it
Becomes(id, r) ==
  /\ issued' = Issue(task[id].pc, r.pc)
  /\ st' = r.s
  /\ page' = r.page
  /\ now' = IF r.s.timerSeq # st.timerSeq THEN now + 2 ELSE now
  /\ task' = [task EXCEPT ![id].pc = r.pc,
                          ![id].via = IF r.via = "same" THEN @ ELSE r.via,
                          ![id].got = IF r.got = "same" THEN @ ELSE r.got]
  /\ poller' = IF r.poll THEN [poller EXCEPT ![id] = [pc |-> "get", attempts |-> 1, got |-> "none"]]
               ELSE poller

\* the main initialization effect, run once after the first render
MountEffect ==
  /\ page = "mounted"
  /\ task["init"].pc = "mount"
  /\ LET should == ~st.hasInitialized /\ (nav.prompt # Null \/ nav.existingProject)
         preview == /\ nav.projectId # Null /\ nav.prompt = Null
                    /\ ~nav.existingProject /\ ~st.hasInitialized
         k == IF should THEN "full" ELSE IF preview THEN "preview" ELSE "none"
         s1 == [st EXCEPT !.hasInitialized = (should \/ preview) \/ @]
         r == IF k = "none" THEN At(st, "done")
              ELSE Settle(StartHealth(s1, k, TaskClosure(st)), k, "none", TaskClosure(st), now)
     IN /\ st' = r.s
        /\ page' = r.page
        /\ issued' = Issue("mount", r.pc)
        /\ task' = [task EXCEPT !["init"] =
                      [pc |-> r.pc, kind |-> k, via |-> "none", got |-> "none", cl |-> TaskClosure(st),
                       runs |-> 1]]
  /\ UNCHANGED <<env, nav, keys, now, sub, stream, clr, poller, streamReqs, submits, ticks>>

\* the texts checkServerHealth puts into the error state
HealthFailures == {"refused", "timeout", "other"}

\* the text the catch block of checkServerHealth chooses: an axios error with
\* code ECONNREFUSED or ERR_NETWORK, an axios error without a response (the
\* 5 s timeout ends the request with code ECONNABORTED), any other error
HealthErrorText(cause) ==
  IF cause = "refused" THEN "Backend server is not responding."
  ELSE IF cause = "timeout" THEN "Server error: Unknown"
  ELSE "Cannot connect to server"

HealthErrors == {HealthErrorText(c) : c \in HealthFailures}

\* the component after checkServerHealth has failed by `cause` and its
\* caller of kind k has reacted
HealthFailed(s, cause, k) ==
  LET s1 == [s EXCEPT !.isServerHealthy = "false", !.error = HealthErrorText(cause),
                      !.healthCheckDone = TRUE]
  IN IF k = "full" THEN [s1 EXCEPT !.projectStatus = "error"]
     ELSE IF k = "retry" THEN [s1 EXCEPT !.isRetrying = FALSE]
     ELSE s1

\* GET /health settles (the request has a 5 s timeout)
HealthSettles ==
  /\ page = "mounted"
  /\ \E id \in DOMAIN task :
       /\ task[id].pc = "health"
       /\ LET k == task[id].kind
              cl == task[id].cl
          IN \/ LET s1 == [st EXCEPT !.isServerHealthy = "true", !.error = "",
                                     !.healthCheckDone = TRUE]
                IN Becomes(id, Settle(StartSession(s1, k, cl), k, "none", cl, now))
             \/ \E c \in HealthFailures :
                  Becomes(id, At(HealthFailed(st, c, k), "done"))
  /\ UNCHANGED <<env, nav, keys, sub, stream, clr, streamReqs, submits, ticks>>

\* the fallback identifier of initializeSession
FallbackSessionId == IF nav.projectId # Null THEN "project-p42" ELSE "temp-t"

\* POST /session/create settling as if its failure were reported like the
\* failures the outer catch of initializeSession reports (lines 592-597)
CreateSettlesLoud ==
  /\ page = "mounted"
  /\ \E id \in DOMAIN task :
       /\ task[id].pc = "create"
       /\ LET k == task[id].kind
              cl == task[id].cl
          IN \E sid \in {"s1", Null} :
               LET s1 == IF sid # Null
                         THEN [st EXCEPT !.sessionId = sid, !.hasSessionSupport = TRUE,
                                         !.sessionInitialized = TRUE]
                         ELSE [st EXCEPT !.sessionId = FallbackSessionId,
                                         !.hasSessionSupport = FALSE,
                                         !.error = "Failed to initialize chat session",
                                         !.sessionInitialized = TRUE]
               IN Becomes(id, Settle(LoadHistoryFor(s1, s1.sessionId, k, cl),
                                     k, "none", cl, now))
  /\ UNCHANGED <<env, nav, keys, sub, stream, clr, streamReqs, submits, ticks>>

\* POST /session/create settles
CreateSettles ==
  /\ page = "mounted"
  /\ \E id \in DOMAIN task :
       /\ task[id].pc = "create"
       /\ LET k == task[id].kind
              cl == task[id].cl
          IN \E sid \in {"s1", Null} :
               LET s1 == IF sid # Null
                         THEN [st EXCEPT !.sessionId = sid, !.hasSessionSupport = TRUE,
                                         !.sessionInitialized = TRUE]
                         ELSE [st EXCEPT !.sessionId = FallbackSessionId,
                                         !.hasSessionSupport = FALSE,
                                         !.sessionInitialized = TRUE]
               IN Becomes(id, Settle(LoadHistoryFor(s1, s1.sessionId, k, cl),
                                     k, "none", cl, now))
  /\ UNCHANGED <<env, nav, keys, sub, stream, clr, streamReqs, submits, ticks>>


\* the messages a history endpoint returns, as loadConversationHistory and
\* loadProjectMessages format them (the ids are the backend's)
History(n) ==
  [i \in 1..n |-> Message("hist", i, IF i % 2 = 1 THEN "user" ELSE "assistant",
                          <<"earlier turn">>, FALSE)]

\* setMessages(formattedMessages); messageCountRef.current = its length
LoadMessages(s, n) == [s EXCEPT !.messages = History(n), !.messageCountRef = n]

\* loadConversationHistory settles; loadCurrentSummary starts
HistorySettles ==
  /\ page = "mounted"
  /\ \E id \in DOMAIN task :
       /\ task[id].pc = "history"
       /\ \/ \E n \in {0, MaxHistory} : Becomes(id, At(LoadMessages(st, n), "summary"))
          \/ Becomes(id, At(st, "summary"))
  /\ UNCHANGED <<env, nav, keys, sub, stream, clr, streamReqs, submits, ticks>>

\* loadCurrentSummary settles; loadConversationStats starts
InitSummarySettles ==
  /\ page = "mounted"
  /\ \E id \in DOMAIN task :
       /\ task[id].pc = "summary"
       /\ \E ok \in env.loads :
            Becomes(id, At(IF ok THEN [st EXCEPT !.currentSummary = "summary1"] ELSE st,
                           "stats"))
  /\ UNCHANGED <<env, nav, keys, sub, stream, clr, streamReqs, submits, ticks>>

\* loadConversationStats settles; initializeSession returns
InitStatsSettles ==
  /\ page = "mounted"
  /\ \E id \in DOMAIN task :
       /\ task[id].pc = "stats"
       /\ \E ok \in env.loads :
            LET s1 == IF ok THEN [st EXCEPT !.conversationStats = "stats1"] ELSE st
                k == task[id].kind
                cl == task[id].cl
            IN Becomes(id, Settle(AfterSession(s1, k, cl), k, "none", cl, now))
  /\ UNCHANGED <<env, nav, keys, sub, stream, clr, streamReqs, submits, ticks>>

\* the ways GET /messages/project/{id} ends without messages: a success
\* without data, a 404, a network error, any other error
ProjectMessagesEndings == {"empty", "404", "network", "other"}

\* a faulty catch of loadProjectMessages: the 404 is shown as an error
ProjectMessagesEndedLoud(s, ending) ==
  IF ending = "network" THEN s
  ELSE IF ending = "404"
  THEN [s EXCEPT !.messages = <<>>, !.error = "Failed to load project messages"]
  ELSE [s EXCEPT !.messages = <<>>]

\* loadProjectMessages after its GET ended that way
ProjectMessagesEnded(s, ending) ==
  IF ending = "network" THEN s ELSE [s EXCEPT !.messages = <<>>]

\* loadProjectMessages settles; initializeSession returns
ProjectMessagesSettles ==
  /\ page = "mounted"
  /\ \E id \in DOMAIN task :
       /\ task[id].pc = "projectMessages"
       /\ LET k == task[id].kind
              cl == task[id].cl
              loaded == [st EXCEPT !.projectLoaded = TRUE]
          IN \/ \* success with data
                \E n \in {0, MaxHistory} :
                  Becomes(id, Settle(AfterSession(LoadMessages(loaded, n), k, cl),
                                     k, "none", cl, now))
             \/ \E ending \in ProjectMessagesEndings :
                  Becomes(id, Settle(AfterSession(ProjectMessagesEnded(loaded, ending), k, cl),
                                     k, "none", cl, now))
  /\ UNCHANGED <<env, nav, keys, sub, stream, clr, streamReqs, submits, ticks>>

\* the GET of verifyProjectByUrl settles
VerifySettles ==
  /\ page = "mounted"
  /\ \E id \in DOMAIN task :
       /\ task[id].pc = "verify"
       /\ LET k == task[id].kind
              cl == task[id].cl
          IN \E pid \in env.verified :
               \* a match sets the id; no match or a failure resets it to null
               LET s1 == [st EXCEPT !.currentProjectInfo = pid]
               IN Becomes(id, Settle(IF k = "full" THEN At(s1, "tail") ELSE At(s1, "done"),
                                     k, "none", cl, now))
  /\ UNCHANGED <<env, nav, keys, sub, stream, clr, streamReqs, submits, ticks>>


\* the ways the GET of fetchReadyProject fails: a 404, a network error, any
\* other error
FetchFailures == {"404", "network", "other"}

\* the error text of fetchReadyProject's catch block
FetchErrorText(cause) ==
  IF cause = "404" THEN "Project with ID 42 not found."
  ELSE IF cause = "network" THEN "Cannot connect to server"
  ELSE "Failed to load project"

FetchErrors == {FetchErrorText(c) : c \in FetchFailures}

\* the catch block of fetchReadyProject
FetchFailed(s, cause) ==
  StopBuildProgress([s EXCEPT !.error = FetchErrorText(cause), !.projectStatus = "error"])

\* a faulty fetchReadyProject: a failed build without a URL stays on the page
FetchedProjectStaysOnError(s0, p, t) ==
  LET s == [s0 EXCEPT !.currentProject = p] IN
  IF p.status = "ready" /\ p.deploymentUrl # Null
  THEN At(StopBuildProgress([s EXCEPT !.previewUrl = p.deploymentUrl,
                                      !.projectStatus = "ready"]), "fetched")
  ELSE IF p.status \in {"building", "pending"}
  THEN [At(StartBuildProgress([s EXCEPT !.projectStatus = "loading"], t), "fetched")
          EXCEPT !.poll = TRUE]
  ELSE At(StopBuildProgress([s EXCEPT !.error = "Project build failed.",
                                      !.projectStatus = "error"]), "fetched")

\* fetchReadyProject after its GET resolved with project p, at time t
FetchedProject(s0, p, t) ==
  LET s == [s0 EXCEPT !.currentProject = p] IN
  IF p.status = "ready" /\ p.deploymentUrl # Null
  THEN At(StopBuildProgress([s EXCEPT !.previewUrl = p.deploymentUrl,
                                      !.projectStatus = "ready"]), "fetched")
  ELSE IF p.status \in {"building", "pending"}
  THEN \* pollProjectStatus starts its first poll() and returns
       [At(StartBuildProgress([s EXCEPT !.projectStatus = "loading"], t), "fetched")
          EXCEPT !.poll = TRUE]
  ELSE IF p.status = "error"
  THEN IF p.deploymentUrl = Null
       THEN Leave(StopBuildProgress(s))
       ELSE At(StopBuildProgress(
                 [s EXCEPT !.error = "Project build failed. Please try regenerating the project.",
                           !.projectStatus = "error"]), "fetched")
  ELSE IF nav.prompt # Null
  THEN [StartGenerate(StartBuildProgress(s, t), t) EXCEPT !.via = "fetch"]
  ELSE At(StopBuildProgress(
            [s EXCEPT !.error = "Project found, but deployment is not ready and no prompt available to rebuild.",
                      !.projectStatus = "error"]), "fetched")

\* the GET of fetchReadyProject settles with one of `answers` or fails
FetchProjectSettles ==
  /\ page = "mounted"
  /\ \E id \in DOMAIN task :
       /\ task[id].pc = "fetchProject"
       /\ LET k == task[id].kind
              cl == task[id].cl
          IN \/ \E p \in env.projects :
                  Becomes(id, Settle(FetchedProject(st, p, now), k, "fetch", cl, now))
             \/ \E c \in FetchFailures :
                  Becomes(id, Settle(At(FetchFailed(st, c), "fetched"), k, "fetch", cl, now))
  /\ UNCHANGED <<env, nav, keys, sub, stream, clr, streamReqs, submits, ticks>>


\* the previewUrl values POST /generate may answer with (null: none given)
GeneratedUrls == {"url1", Null}

\* a faulty finally block: the flag is left set
GenerateFinallyKeepsFlag(s) == s

\* the finally block of generateCode
GenerateFinally(s) == [s EXCEPT !.isGenerating = FALSE]

\* POST /generate settles
GenerateSettles ==
  /\ page = "mounted"
  /\ \E id \in DOMAIN task :
       /\ task[id].pc = "generate"
       /\ LET k == task[id].kind
              cl == task[id].cl
              via == task[id].via
          IN \/ \E u \in GeneratedUrls :
                  LET s1 == StopBuildProgress(
                              [st EXCEPT !.previewUrl = IF u = Null THEN "" ELSE u,
                                         !.projectStatus = "ready"])
                  IN IF u # Null
                     THEN Becomes(id, At(s1, "generatePut"))
                     ELSE Becomes(id, Settle(At(GenerateFinally(s1), "generated"),
                                             k, via, cl, now))
             \/ \E e \in {"Cannot connect to server. Please check if the backend is running.",
                          "Failed to generate code. Please try again."} :
                  Becomes(id, At(StopBuildProgress(
                                   [st EXCEPT !.error = e, !.projectStatus = "error"]),
                                 "generateFailed"))
  /\ UNCHANGED <<env, nav, keys, sub, stream, clr, streamReqs, submits, ticks>>

\* PUT /projects/{id} after a successful generation settles
GeneratePutSettles ==
  /\ page = "mounted"
  /\ \E id \in DOMAIN task :
       /\ task[id].pc = "generatePut"
       /\ \/ Becomes(id, At(st, "generateGet"))
          \/ \* the update failed: only logged
             Becomes(id, Settle(At(GenerateFinally(st), "generated"),
                                task[id].kind, task[id].via, task[id].cl, now))
  /\ UNCHANGED <<env, nav, keys, sub, stream, clr, streamReqs, submits, ticks>>

\* the GET that refreshes the project after a successful generation settles
GenerateGetSettles ==
  /\ page = "mounted"
  /\ \E id \in DOMAIN task :
       /\ task[id].pc = "generateGet"
       /\ \E p \in env.projects \cup {NoProject} :
            Becomes(id, Settle(At(GenerateFinally(
                                    IF p = NoProject THEN st
                                    ELSE [st EXCEPT !.currentProject = p]), "generated"),
                               task[id].kind, task[id].via, task[id].cl, now))
  /\ UNCHANGED <<env, nav, keys, sub, stream, clr, streamReqs, submits, ticks>>

\* the GET after a failed generation settles: without a deployment URL, or
\* without an answer, the page navigates to "/"
GenerateFailedSettles ==
  /\ page = "mounted"
  /\ \E id \in DOMAIN task :
       /\ task[id].pc = "generateFailed"
       /\ \E p \in env.projects \cup {NoProject} :
            IF p = NoProject \/ p.deploymentUrl = Null
            THEN Becomes(id, [Leave(GenerateFinally(st))
                                EXCEPT !.got = IF p = NoProject THEN "failed" ELSE "nourl"])
            ELSE Becomes(id, [Settle(At(GenerateFinally(st), "generated"),
                                     task[id].kind, task[id].via, task[id].cl, now)
                                EXCEPT !.got = "url"])
  /\ UNCHANGED <<env, nav, keys, sub, stream, clr, streamReqs, submits, ticks>>

\* ------------------------------------------------------ pollProjectStatus
\* a faulty poll(): a ready project does not end the loop
PolledPastReady(s0, p, attempts) ==
  LET s == [s0 EXCEPT !.currentProject = p] IN
  IF p.status = "ready" /\ p.deploymentUrl # Null
  THEN At(StopBuildProgress([s EXCEPT !.previewUrl = p.deploymentUrl,
                                      !.projectStatus = "ready"]), "timer3000")
  ELSE IF p.status = "error" \/ attempts >= maxAttempts
  THEN At(StopBuildProgress([s EXCEPT !.projectStatus = "error"]), "stopped")
  ELSE At(s, "timer3000")

\* poll() after its GET resolved with project p
Polled(s0, p, attempts) ==
  LET s == [s0 EXCEPT !.currentProject = p] IN
  IF p.status = "ready" /\ p.deploymentUrl # Null
  THEN At(StopBuildProgress([s EXCEPT !.previewUrl = p.deploymentUrl,
                                      !.projectStatus = "ready"]), "stopped")
  ELSE IF p.status = "error"
  THEN IF p.deploymentUrl = Null
       THEN [Leave(StopBuildProgress(s)) EXCEPT !.pc = "stopped"]
       ELSE At(StopBuildProgress(
                 [s EXCEPT !.error = "Project build failed during polling.",
                           !.projectStatus = "error"]), "stopped")
  ELSE IF attempts >= maxAttempts
  THEN At(StopBuildProgress(
            [s EXCEPT !.error = "Project is taking too long to build. Please check back later.",
                      !.projectStatus = "error"]), "stopped")
  ELSE At(s, "timer3000")

\* a faulty catch of poll(): the first failed request ends the polling
PollFailedGivesUp(s, attempts) ==
  At(StopBuildProgress([s EXCEPT !.error = "Failed to check project status",
                                 !.projectStatus = "error"]), "stopped")

\* a faulty catch of poll(): the retry is scheduled with the short delay
PollFailedShortDelay(s, attempts) ==
  IF attempts >= maxAttempts
  THEN At(StopBuildProgress([s EXCEPT !.error = "Failed to check project status",
                                      !.projectStatus = "error"]), "stopped")
  ELSE At(s, "timer3000")

\* poll() after its GET failed
PollFailed(s, attempts) ==
  IF attempts >= maxAttempts
  THEN At(StopBuildProgress([s EXCEPT !.error = "Failed to check project status",
                                      !.projectStatus = "error"]), "stopped")
  ELSE At(s, "timer5000")

\* the GET of poll() settles
PollSettles ==
  /\ page = "mounted"
  /\ \E id \in DOMAIN poller :
       /\ poller[id].pc = "get"
       /\ \E p \in env.projects \cup {NoProject} :
            LET r == IF p = NoProject THEN PollFailed(st, poller[id].attempts)
                     ELSE Polled(st, p, poller[id].attempts)
            IN /\ st' = r.s
               /\ page' = r.page
               /\ poller' = [poller EXCEPT ![id].pc = r.pc,
                                           ![id].got = IF p = NoProject THEN "failed"
                                                       ELSE "ok"]
  /\ UNCHANGED <<env, nav, keys, issued, now, sub, stream, clr, task, streamReqs, submits, ticks>>

\* a setTimeout(poll, ...) fires: attempts++ and the next GET is issued
PollTimerFires ==
  /\ page = "mounted"
  /\ \E id \in DOMAIN poller :
       /\ poller[id].pc \in {"timer3000", "timer5000"}
       /\ poller' = [poller EXCEPT ![id].pc = "get", ![id].attempts = @ + 1]
  /\ UNCHANGED <<env, nav, keys, issued, page, now, st, sub, stream, clr, task, streamReqs, submits, ticks>>

\* refreshProject: the user asks for the project to be fetched again
RefreshProject ==
  /\ page = "mounted"
  /\ task["init"].pc # "mount"
  /\ nav.projectId # Null
  /\ task["refresh"].pc \in {"idle", "done"}
  /\ task["refresh"].runs < MaxRefreshes
  /\ poller["refresh"].pc \in {"idle", "stopped"}
  /\ LET cl == TaskClosure(st)
         r == Settle(StartFetch([st EXCEPT !.error = ""], cl), "refresh", "none", cl, now)
     IN /\ st' = r.s
        /\ page' = r.page
        /\ issued' = Issue(task["refresh"].pc, r.pc)
        /\ task' = [task EXCEPT !["refresh"] =
                      [pc |-> r.pc, kind |-> "refresh", via |-> "none", got |-> "none", cl |-> cl,
                       runs |-> task["refresh"].runs + 1]]
  /\ UNCHANGED <<env, nav, keys, now, sub, stream, clr, poller, streamReqs, submits, ticks>>

\* ------------------------------------------------------ retryConnection
\* the values the dependencies of the initialization effect are computed
\* from: those of checkServerHealth, initializeSession, fetchReadyProject and
\* verifyProjectByUrl (buildSteps, which changes with every build-progress
\* update, is left out)
Deps(s) == <<s.isServerHealthy, s.sessionId, s.hasSessionSupport, s.projectStatus,
             s.previewUrl>>

\* the error texts under which the error box shows a retry button
OffersRetry(e) ==
  e \in {"Cannot connect to server",
         "Cannot connect to server. Please check if the backend is running."}

\* one of the three retry buttons is rendered and enabled
RetryOffered(s) ==
  /\ ~s.isRetrying
  /\ \/ s.isServerHealthy = "false"
     \/ OffersRetry(s.error)
     \/ ~s.showBuildProgress /\ s.projectStatus = "error" /\ s.previewUrl = ""

\* retryConnection from the click to its first await
RetryConnection ==
  /\ page = "mounted"
  /\ task["init"].pc # "mount"
  /\ RetryOffered(st)
  /\ task["retry"].pc \in {"idle", "done"}
  /\ task["retry"].runs < MaxRetries
  /\ LET cl == TaskClosure(st)
         s1 == [st EXCEPT !.isRetrying = TRUE, !.error = "", !.projectStatus = "loading",
                          !.healthCheckDone = FALSE, !.sessionInitialized = FALSE,
                          !.projectLoaded = FALSE, !.hasInitialized = FALSE,
                          !.effectDeps = Deps(st)]
         r == Settle(StartHealth(s1, "retry", cl), "retry", "none", cl, now)
     IN /\ st' = r.s
        /\ page' = r.page
        /\ issued' = Issue(task["retry"].pc, r.pc)
        /\ task' = [task EXCEPT !["retry"] =
                      [pc |-> r.pc, kind |-> "retry", via |-> "none", got |-> "none", cl |-> cl,
                       runs |-> task["retry"].runs + 1]]
  /\ UNCHANGED <<env, nav, keys, now, sub, stream, clr, poller, streamReqs, submits, ticks>>

\* the effect's test without the hasInitialized ref of shouldInitialize
EffectDueIgnoresFlag ==
  /\ page = "mounted"
  /\ task["init"].pc # "mount"
  /\ Deps(st) # st.effectDeps
  /\ \/ nav.prompt # Null \/ nav.existingProject
     \/ nav.projectId # Null
  /\ task["rerun"].pc \in {"idle", "done"}

\* the initialization effect is about to run again and would start a
\* sequence: a dependency has changed since it last ran and hasInitialized
\* is not set
EffectDue ==
  /\ page = "mounted"
  /\ task["init"].pc # "mount"
  /\ ~st.hasInitialized
  /\ Deps(st) # st.effectDeps
  /\ \/ nav.prompt # Null \/ nav.existingProject
     \/ nav.projectId # Null
  /\ task["rerun"].pc \in {"idle", "done"}

\* the initialization effect runs again, with the callbacks of the render
\* that changed its dependencies
EffectReRuns ==
  /\ EffectDue
  /\ LET k == IF nav.prompt # Null \/ nav.existingProject THEN "full" ELSE "preview"
         cl == TaskClosure(st)
         s1 == [st EXCEPT !.hasInitialized = TRUE]
         r == Settle(StartHealth(s1, k, cl), k, "none", cl, now)
     IN /\ st' = r.s
        /\ page' = r.page
        /\ issued' = Issue(task["rerun"].pc, r.pc)
        /\ task' = [task EXCEPT !["rerun"] =
                      [pc |-> r.pc, kind |-> k, via |-> "none", got |-> "none", cl |-> cl,
                       runs |-> task["rerun"].runs + 1]]
  /\ UNCHANGED <<env, nav, keys, now, sub, stream, clr, poller, streamReqs, submits, ticks>>

\* the setTimeout that hides the build progress fires
HideProgressFires ==
  /\ page = "mounted"
  /\ st.hideTimers > 0
  /\ st' = [st EXCEPT !.hideTimers = @ - 1, !.showBuildProgress = FALSE]
  /\ UNCHANGED <<env, nav, keys, issued, page, now, sub, stream, clr, task, poller, streamReqs, submits, ticks>>

\* ------------------------------------------------------ teardown
\* the component is unmounted because the route changes: the cleanup of the
\* unmount effect runs, and nothing else does
Teardown ==
  /\ page = "mounted"
  /\ task["init"].pc # "mount"
  /\ page' = "left"
  /\ st' = Unmount(st)
  /\ UNCHANGED <<env, nav, keys, issued, now, sub, stream, clr, task, poller, streamReqs, submits, ticks>>

\* a setTimeout(poll, ...) of the unmounted component fires: attempts++ and
\* the next GET is issued
PollTimerFiresUnmounted ==
  /\ page = "left"
  /\ \E id \in DOMAIN poller :
       /\ poller[id].pc \in {"timer3000", "timer5000"}
       /\ poller' = [poller EXCEPT ![id].pc = "get", ![id].attempts = @ + 1]
  /\ UNCHANGED <<env, nav, keys, issued, page, now, st, sub, stream, clr, task, streamReqs, submits, ticks>>

\* the GET of poll() settles after the unmount: the state setters have no
\* component to update, the timers are armed as before
PollSettlesUnmounted ==
  /\ page = "left"
  /\ \E id \in DOMAIN poller :
       /\ poller[id].pc = "get"
       /\ \E p \in env.projects \cup {NoProject} :
            LET r == IF p = NoProject THEN PollFailed(st, poller[id].attempts)
                     ELSE Polled(st, p, poller[id].attempts)
            IN poller' = [poller EXCEPT ![id].pc = r.pc,
                                        ![id].got = IF p = NoProject THEN "failed"
                                                    ELSE "ok"]
  /\ UNCHANGED <<env, nav, keys, issued, page, now, st, sub, stream, clr, task, streamReqs, submits, ticks>>


\* ------------------------------------------------------ specifications
\* the state after the component is constructed with location.state n, in a
\* run where the backend answers as e allows
Constructed(e, n) ==
  /\ env = e
  /\ nav = n
  /\ page = "mounted"
  /\ now = 100
  /\ st = InitialState
  /\ sub = SubIdle
  /\ stream = NoStream
  /\ clr = [pc |-> "idle", runs |-> 0]
  /\ task = [id \in Tasks |->
               IF id = "init" THEN [TaskIdle EXCEPT !.pc = "mount"] ELSE TaskIdle]
  /\ poller = [id \in Tasks |-> PollerIdle]
  /\ streamReqs = <<>>
  /\ issued = [q \in Requests |-> 0]
  /\ submits = 0
  /\ keys = 0
  /\ ticks = 0

\* the ways the chat page is entered for an existing project, or without one
ChatNavs ==
  { [prompt |-> Null, projectId |-> pid, existingProject |-> TRUE, sessionId |-> Null,
     storedProject |-> sp] : pid \in {PageProject, Null}, sp \in BOOLEAN }

\* the ways the page is entered for a project that may still have to be built
BuildNavs ==
  { [prompt |-> pr, projectId |-> PageProject, existingProject |-> ex,
     sessionId |-> "s0", storedProject |-> sp] :
      pr \in {Null, "build a shop"}, ex \in BOOLEAN, sp \in BOOLEAN }

\* a backend whose project is deployed, answering a prompt with nothing, with
\* one content line or with one progress event
ChatEnv ==
  [ bodies |-> { <<>>, <<"P", "O", "a", "C", "N">>, <<"P", "M", "N">> },
    loads |-> {TRUE}, cycles |-> MaxSubmits, clears |-> MaxClears, ticks |-> 0,
    verified |-> {PageProject},
    projects |-> { [id |-> PageProject, status |-> "ready", deploymentUrl |-> "url1"] } ]

\* the same backend answering with every body of at most MaxLines lines
StreamEnv ==
  [ bodies |-> Bodies, loads |-> {TRUE}, cycles |-> 1, clears |-> 0, ticks |-> MaxTicks,
    verified |-> {PageProject}, projects |-> DeployedProjects ]

\* a backend whose project may be in any state
BuildEnv ==
  [ bodies |-> {<<>>}, loads |-> BOOLEAN, cycles |-> 0, clears |-> 0, ticks |-> MaxTicks,
    verified |-> {PageProject, OtherProject, Null}, projects |-> ProjectRecords ]

Init == \E n \in ChatNavs : ~n.storedProject /\ Constructed(ChatEnv, n)

InitStream ==
  \E n \in ChatNavs : n.projectId # Null /\ ~n.storedProject /\ Constructed(StreamEnv, n)

InitPoll == \E n \in BuildNavs : Constructed(BuildEnv, n)

\* the initialization sequence of the page
Initialize ==
  \/ MountEffect
  \/ HealthSettles
  \/ CreateSettles
  \/ HistorySettles
  \/ InitSummarySettles
  \/ InitStatsSettles
  \/ ProjectMessagesSettles
  \/ FetchProjectSettles

\* one streaming submit cycle
StreamingCycle ==
  \/ HandlePromptChange
  \/ HandleSubmit
  \/ SaveUserSettles
  \/ FetchSettles
  \/ ReadChunk
  \/ ReadFails
  \/ ReadDone
  \/ StreamRefreshSettles

\* the chat: initialization, submit cycles, clearing, build progress
Next ==
  \/ Initialize
  \/ StreamingCycle
  \/ SummaryPostSettles
  \/ SummaryLoadSettles
  \/ SummaryStatsSettles
  \/ ModifyResolves
  \/ ModifyFails
  \/ SaveAssistantSettles
  \/ NonStreamingRefreshSettles
  \/ SaveNonStreamingErrorSettles
  \/ SaveSubmitErrorSettles
  \/ ClearConversation
  \/ ClearSettles

Spec == Init /\ [][Next]_vars

\* the streaming cycles alone, for every body and every chunking of it
NextStream == Initialize \/ StreamingCycle \/ BuildProgressTick

SpecStream == InitStream /\ [][NextStream]_vars

\* the project: initialization, fetching, generation, polling
NextPoll ==
  \/ MountEffect
  \/ HealthSettles
  \/ HistorySettles
  \/ InitSummarySettles
  \/ InitStatsSettles
  \/ VerifySettles
  \/ FetchProjectSettles
  \/ GenerateSettles
  \/ GeneratePutSettles
  \/ GenerateGetSettles
  \/ GenerateFailedSettles
  \/ PollSettles
  \/ PollTimerFires
  \/ BuildProgressTick

SpecPoll == InitPoll /\ [][NextPoll]_vars

\* ---- retry: initialization, retryConnection and the effect running again
RetryNavs ==
  { [prompt |-> p, projectId |-> PageProject, existingProject |-> e,
     sessionId |-> sid, storedProject |-> FALSE] :
      p \in {Null, "build a shop"}, e \in BOOLEAN, sid \in {Null, "s0"} }

\* a project that is deployed, or one without a status, which is generated
RetryEnv ==
  [bodies |-> {<<>>}, loads |-> {TRUE}, cycles |-> 0, clears |-> 0, ticks |-> 0,
   verified |-> {PageProject},
   projects |-> { [id |-> PageProject, status |-> "ready", deploymentUrl |-> "url1"],
                  [id |-> PageProject, status |-> Null, deploymentUrl |-> Null] }]

InitRetry == \E n \in RetryNavs : Constructed(RetryEnv, n)

\* the effect runs before anything else happens to the page
NextRetry ==
  \/ EffectReRuns
  \/ ~EffectDue /\ MountEffect
  \/ ~EffectDue /\ HealthSettles
  \/ ~EffectDue /\ CreateSettles
  \/ ~EffectDue /\ HistorySettles
  \/ ~EffectDue /\ InitSummarySettles
  \/ ~EffectDue /\ InitStatsSettles
  \/ ~EffectDue /\ ProjectMessagesSettles
  \/ ~EffectDue /\ FetchProjectSettles
  \/ ~EffectDue /\ GenerateSettles
  \/ ~EffectDue /\ GeneratePutSettles
  \/ ~EffectDue /\ GenerateGetSettles
  \/ ~EffectDue /\ GenerateFailedSettles
  \/ ~EffectDue /\ RetryConnection

SpecRetry == InitRetry /\ [][NextRetry]_vars

\* ---- teardown: the page of a project that is being built is left
TeardownNavs ==
  { [prompt |-> Null, projectId |-> PageProject, existingProject |-> TRUE,
     sessionId |-> "s0", storedProject |-> FALSE] }

\* a backend whose project stays in the building state
TeardownEnv ==
  [bodies |-> {<<>>}, loads |-> {TRUE}, cycles |-> 0, clears |-> 0, ticks |-> 0,
   verified |-> {PageProject},
   projects |-> { [id |-> PageProject, status |-> "building", deploymentUrl |-> Null] }]

InitTeardown == \E n \in TeardownNavs : Constructed(TeardownEnv, n)

NextTeardown ==
  \/ MountEffect
  \/ HealthSettles
  \/ HistorySettles
  \/ InitSummarySettles
  \/ InitStatsSettles
  \/ FetchProjectSettles
  \/ PollSettles
  \/ PollTimerFires
  \/ Teardown
  \/ PollTimerFiresUnmounted
  \/ PollSettlesUnmounted

SpecTeardown == InitTeardown /\ [][NextTeardown]_vars

\* ---- refresh: a project that is being built, with refreshProject
RefreshNavs ==
  { [prompt |-> Null, projectId |-> PageProject, existingProject |-> e,
     sessionId |-> "s0", storedProject |-> FALSE] : e \in BOOLEAN }

\* a backend whose project is being built or deployed
RefreshEnv ==
  [bodies |-> {<<>>}, loads |-> {TRUE}, cycles |-> 0, clears |-> 0, ticks |-> 0,
   verified |-> {PageProject},
   projects |-> { [id |-> PageProject, status |-> "building", deploymentUrl |-> Null],
                  [id |-> PageProject, status |-> "ready", deploymentUrl |-> "url1"] }]

InitRefresh == \E n \in RefreshNavs : Constructed(RefreshEnv, n)

NextRefresh ==
  \/ MountEffect
  \/ HealthSettles
  \/ HistorySettles
  \/ InitSummarySettles
  \/ InitStatsSettles
  \/ FetchProjectSettles
  \/ PollSettles
  \/ PollTimerFires
  \/ RefreshProject

SpecRefresh == InitRefresh /\ [][NextRefresh]_vars

\* ---- submit: the prompt box with its button and its Enter key
\* one submit cycle and no clearing
SubmitEnv == [ChatEnv EXCEPT !.cycles = 1, !.clears = 0]

\* the page is entered as for the chat, or with the session id of an earlier
\* visit in location.state
SubmitNavs ==
  { n \in ChatNavs : ~n.storedProject } \cup
  { [prompt |-> Null, projectId |-> PageProject, existingProject |-> TRUE,
     sessionId |-> "s0", storedProject |-> FALSE] }

InitSubmit == \E n \in SubmitNavs : Constructed(SubmitEnv, n)

NextSubmit ==
  \/ Initialize
  \/ StreamingCycle
  \/ HandleKeyPress
  \/ ModifyResolves
  \/ ModifyFails
  \/ SaveAssistantSettles
  \/ NonStreamingRefreshSettles
  \/ SaveNonStreamingErrorSettles
  \/ SaveSubmitErrorSettles

SpecSubmit == InitSubmit /\ [][NextSubmit]_vars

\* the network awaits of a submit cycle: each of them settles
SubmitSettles ==
  \/ SaveUserSettles
  \/ FetchSettles
  \/ ReadChunk
  \/ ReadFails
  \/ ReadDone
  \/ StreamRefreshSettles
  \/ ModifyResolves
  \/ ModifyFails
  \/ SaveAssistantSettles
  \/ NonStreamingRefreshSettles
  \/ SaveNonStreamingErrorSettles
  \/ SaveSubmitErrorSettles

\* the same, where no request of a submit cycle stays pending for ever
SpecSubmitFair == SpecSubmit /\ WF_vars(SubmitSettles)

\* the same, where every request of a poll loop settles and every timer fires
SpecPollFair == SpecPoll /\ WF_vars(PollTimerFires) /\ WF_vars(PollSettles)

\* -------------------------------------------------------------- properties
\* s is a prefix of t
IsPrefix(s, t) == Len(s) <= Len(t) /\ SubSeq(t, 1, Len(s)) = s

\* a line the consumer is to skip: no `data: ` prefix, a payload that is not
\* JSON, or JSON without a content
Skipped(line) ==
  \/ ~StartsWithData(line)
  \/ ~JSONParse(SlicePrefix(line)).ok
  \/ JSONParse(SlicePrefix(line)).content = <<>>

\* a data line whose payload does not parse
Malformed(line) == StartsWithData(line) /\ ~JSONParse(SlicePrefix(line)).ok

RECURSIVE ContentsOf(_)
\* the concatenation of the content fields of the well-formed data lines
ContentsOf(lines) ==
  IF lines = <<>> THEN <<>>
  ELSE (IF Skipped(Head(lines)) THEN <<>>
        ELSE JSONParse(SlicePrefix(Head(lines))).content) \o ContentsOf(Tail(lines))

\* the positions of the placeholder of the running submit in a message list
PlaceholdersIn(msgs) == { i \in DOMAIN msgs : msgs[i].id = sub.placeholder }

\* the positions of the messages marked as streaming
StreamingIn(msgs) == { i \in DOMAIN msgs : msgs[i].isStreaming }

\* the synthesized error messages of the streaming path in a message list
StreamErrorsIn(msgs) ==
  SelectSeq(msgs, LAMBDA m : m.type = "assistant" /\ m.content = StreamErrorText)

\* this step is a reader.read() that delivered a chunk
ChunkStep == sub.pc = "read" /\ stream'.pos > stream.pos

\* the lines of the chunk delivered in this step
ChunkLines == SplitLines(SubSeq(stream.body, stream.pos + 1, stream'.pos))

\* C1: once the stream has completed, the content of the placeholder is the
\* concatenation, in receipt order, of the content fields of all well-formed
\* data lines of the whole body, wherever the chunk boundaries fell.
C1_FinalContentIsWholeBody ==
  (page = "mounted" /\ sub.pc = "refresh") =>
    \A i \in PlaceholdersIn(st.messages) :
      st.messages[i].content = ContentsOf(SplitLines(stream.body))

\* C2: when the request, the stream setup or the read loop fails, the list
\* afterwards holds no placeholder and exactly one more error message.
C2_FailureReplacesPlaceholder ==
  [][ (sub.pc \in {"fetch", "read"} /\ StreamCatch(stream)) =>
        /\ PlaceholdersIn(st'.messages) = {}
        /\ Len(StreamErrorsIn(st'.messages)) = Len(StreamErrorsIn(st.messages)) + 1 ]_vars

\* C3: in every reachable state at most one message of the list is marked
\* as streaming.
C3_AtMostOneStreaming == Cardinality(StreamingIn(st.messages)) <= 1

\* a second submit is streaming while the finalized answer of the first one
\* is still in the list
C3_Witness ==
  /\ submits = 2
  /\ \E i, j \in DOMAIN st.messages :
       /\ i < j
       /\ st.messages[i].id[1] = "streaming" /\ ~st.messages[i].isStreaming
       /\ st.messages[j].isStreaming

\* C4: a line without the `data: ` prefix, with a payload that is not JSON,
\* or with JSON that has no content changes neither the accumulator nor a
\* message: a chunk leaves what its other lines alone would have left.
C4_SkippedLinesChangeNothing ==
  [][ ChunkStep =>
        LET kept == SelectSeq(ChunkLines, LAMBDA l : ~Skipped(l))
        IN /\ page' = "mounted"
           /\ stream'.acc = stream.acc \o ContentsOf(kept)
           /\ kept = <<>> => st'.messages = st.messages ]_vars

\* a body of a content line and a line that does not parse has been read to
\* its end, and the content of the first line is what was accumulated
C4_Witness ==
  /\ sub.pc = "read"
  /\ stream.body = <<"P", "O", "a", "C", "N", "P", "X", "N">>
  /\ stream.pos = Len(stream.body)
  /\ stream.acc = <<"a">>
  /\ \E i \in PlaceholdersIn(st.messages) : st.messages[i].content = <<"a">>

\* the index of the first malformed line of a sequence of lines, 0 if none
FirstMalformed(lines) ==
  IF \E i \in DOMAIN lines : Malformed(lines[i])
  THEN CHOOSE i \in DOMAIN lines :
         Malformed(lines[i]) /\ \A j \in 1..(i-1) : ~Malformed(lines[j])
  ELSE 0

\* C5: a line that fails to parse does not abort the stream: the read loop
\* goes on, the well-formed lines after it still contribute, and no error
\* message is appended because of it.
C5_MalformedLineDoesNotAbort ==
  [][ (ChunkStep /\ FirstMalformed(ChunkLines) > 0) =>
        LET later == SubSeq(ChunkLines, FirstMalformed(ChunkLines) + 1, Len(ChunkLines))
            n == Len(ContentsOf(later))
        IN /\ page' = "mounted" /\ sub'.pc = "read"
           /\ Len(st'.messages) = Len(st.messages)
           /\ StreamErrorsIn(st'.messages) = StreamErrorsIn(st.messages)
           /\ Len(stream'.acc) >= n
           /\ SubSeq(stream'.acc, Len(stream'.acc) - n + 1, Len(stream'.acc))
                = ContentsOf(later) ]_vars

\* a body whose first line does not parse was read to its end and finalized:
\* the content of the line after it is the content of the message
C5_Witness ==
  /\ page = "mounted" /\ sub.pc = "refresh"
  /\ stream.body = <<"P", "X", "N", "P", "O", "b", "C", "N">>
  /\ \E i \in PlaceholdersIn(st.messages) :
       st.messages[i].content = <<"b">> /\ ~st.messages[i].isStreaming
  /\ StreamErrorsIn(st.messages) = <<>>

\* C6: once the stream has signalled completion the placeholder is no longer
\* marked as streaming, once handleStreamingResponse has returned
\* isStreamingResponse is false, and no message is marked as streaming after
\* the submit cycle has ended.
C6_CompletionFinalizes ==
  page = "mounted" =>
    /\ sub.pc \notin {"fetch", "read"} => StreamingIn(st.messages) = {}
    /\ sub.pc \notin {"fetch", "read", "refresh"} => ~st.isStreamingResponse

\* a stream that delivered content has completed and its cycle has ended: the
\* finalized message is in the list
C6_Witness ==
  /\ page = "mounted" /\ sub.pc = "idle" /\ submits >= 1
  /\ ~st.isStreamingResponse
  /\ \E i \in DOMAIN st.messages :
       /\ st.messages[i].id[1] = "streaming"
       /\ st.messages[i].content = <<"a">>
       /\ ~st.messages[i].isStreaming

\* the message lists a history endpoint can put in place of the list
Histories == { History(n) : n \in {0, MaxHistory} }

C8_ContentGrowsInReceiptOrder ==
  [][ ChunkStep =>
        \A i \in PlaceholdersIn(st.messages) \cap DOMAIN st'.messages :
          /\ IsPrefix(st.messages[i].content, st'.messages[i].content)
          /\ st'.messages[i].content # st.messages[i].content =>
               st'.messages[i].content = stream.acc \o ContentsOf(ChunkLines) ]_vars

\* two fragments were received in two chunks and the content is the first
\* followed by the second
C8_Witness ==
  /\ sub.pc = "read"
  /\ stream.body = <<"P", "O", "a", "C", "N", "P", "O", "b", "C", "N">>
  /\ stream.pos = Len(stream.body)
  /\ \E i \in PlaceholdersIn(st.messages) : st.messages[i].content = <<"a", "b">>

\* the step in which handleStreamingResponse issues its POST /modify/stream
IssuesStream == sub'.pc = "fetch" /\ sub.pc # "fetch"

\* C9 (as the code has it): a submit on the streaming path issues exactly
\* one POST /modify/stream, whose body carries the submitted prompt, the
\* session id in use and the id of currentProjectInfo when one is known,
\* otherwise the project id of the page; no other step issues the request,
\* in particular none after a failure of the request or of its stream, and
\* there is at most one request per submit.  The prompt and the session id
\* are those of the render in which the user submitted.
C9_OneStreamRequestPerSubmit ==
  [][ /\ IF IssuesStream
         THEN streamReqs' =
                Append(streamReqs,
                       [prompt |-> sub'.cl.prompt, sessionId |-> sub'.cl.sessionId,
                        projectId |-> IF sub'.cl.currentProjectInfo # Null
                                      THEN sub'.cl.currentProjectInfo
                                      ELSE nav.projectId])
         ELSE streamReqs' = streamReqs
      /\ Len(streamReqs') <= submits'
      /\ submits' # submits =>
           sub'.cl.prompt = st.prompt /\ sub'.cl.sessionId = st.sessionId
      /\ (sub.pc # "idle" /\ sub'.pc # "idle") => sub'.cl = sub.cl
    ]_vars

\* C9 as stated: the project id of the body is always the one of the page
C9_BodyCarriesPageProject ==
  [][ IF IssuesStream
      THEN streamReqs' =
             Append(streamReqs,
                    [prompt |-> sub'.cl.prompt, sessionId |-> sub'.cl.sessionId,
                     projectId |-> nav.projectId])
      ELSE streamReqs' = streamReqs ]_vars

\* the second submit of a page opened for one project was sent with the id
\* of the project the backend named during the first
C9_Witness ==
  /\ nav.projectId = PageProject
  /\ Len(streamReqs) = 2
  /\ streamReqs[1].projectId = PageProject
  /\ streamReqs[2].projectId = OtherProject
  /\ streamReqs[2].prompt = "add a footer"

\* poll() of poller id settles its GET in this step
PollStep(id) == poller[id].pc = "get" /\ poller'[id].pc # "get"

\* C10: whatever the status responses are, a response that is ready with a
\* deployment URL stops the poller: the preview URL is that URL,
\* projectStatus is ready, no timer is pending, and a stopped poller never
\* issues a request or schedules a timer again; a response that is ready
\* without a deployment URL, within the attempt budget, schedules the next
\* poll and leaves projectStatus as it was.
C10_PollerStopsAtFirstReadyWithUrl ==
  [][ \A id \in DOMAIN poller :
        /\ poller[id].pc = "stopped" => poller'[id] = poller[id]
        /\ (PollStep(id) /\ st'.currentProject.status = "ready") =>
              IF st'.currentProject.deploymentUrl # Null
              THEN /\ poller'[id].pc = "stopped"
                   /\ st'.previewUrl = st'.currentProject.deploymentUrl
                   /\ st'.projectStatus = "ready"
                   /\ page' = "mounted"
              ELSE poller[id].attempts < maxAttempts =>
                     /\ poller'[id].pc \in {"timer3000", "timer5000"}
                     /\ poller'[id].attempts = poller[id].attempts
                     /\ st'.projectStatus = st.projectStatus
                     /\ st'.previewUrl = st.previewUrl
                     /\ page' = "mounted"
    ]_vars

\* the poller stopped at its third response, ready with a deployment URL
C10_Witness ==
  /\ poller["init"].pc = "stopped"
  /\ poller["init"].attempts = 3
  /\ st.currentProject.status = "ready"
  /\ st.currentProject.deploymentUrl = "url1"
  /\ st.previewUrl = "url1"
  /\ st.projectStatus = "ready"

\* the project record r is terminal for a poll or a fetch
ReadyWithUrl(r) == r.status = "ready" /\ r.deploymentUrl # Null
FailedBuild(r) == r.status = "error" /\ r.deploymentUrl = Null

\* the answer poller id got in this step ends the polling by itself
TerminalAnswer(id) ==
  /\ poller'[id].got = "ok"
  /\ ReadyWithUrl(st'.currentProject) \/ st'.currentProject.status = "error"

\* what one poll loop may and may not do in a step
PollingWithinBudget ==
  [][ \A id \in DOMAIN poller :
        /\ poller'[id].attempts <= maxAttempts
        /\ (PollStep(id) /\ ~TerminalAnswer(id)) =>
              /\ page' = "mounted"
              /\ IF poller[id].attempts < maxAttempts
                 THEN /\ poller'[id].pc \in {"timer3000", "timer5000"}
                      /\ st'.projectStatus = st.projectStatus
                      /\ st'.error = st.error
                 ELSE /\ poller'[id].pc = "stopped"
                      /\ poller'[id].attempts = maxAttempts
                      /\ st'.projectStatus = "error"
                      /\ st'.error # ""
    ]_vars

\* C11: every poll loop terminates.  A poll loop issues at most maxAttempts
\* status requests; an answer that is not terminal, or a failed request,
\* below the budget keeps the loop going and does not set an error, and at
\* the maxAttempts-th request stops it with projectStatus = error and an
\* error text; as long as its requests settle and its timers fire, a loop
\* that was started stops (or the page is left).
C11_PollingStopsAtBudget ==
  /\ PollingWithinBudget
  /\ (\E id \in DOMAIN poller : poller[id].pc \notin {"idle", "stopped"})
       ~> (page # "mounted" \/ \A id \in DOMAIN poller : poller[id].pc \in {"idle", "stopped"})

\* the loop was stopped by the budget after maxAttempts requests, the last
\* of which failed
C11_Witness ==
  /\ poller["init"].pc = "stopped"
  /\ poller["init"].attempts = maxAttempts
  /\ poller["init"].got = "failed"
  /\ st.projectStatus = "error"
  /\ st.error = "Failed to check project status"

\* C12: below the budget a failed status request does not end the polling
\* and schedules the next attempt after 5 s; an answer that is not terminal
\* schedules it after 3 s; the pending timer issues exactly one request,
\* which is the next attempt.
C12_RetryDelays ==
  [][ \A id \in DOMAIN poller :
        /\ (PollStep(id) /\ poller[id].attempts < maxAttempts) =>
              /\ poller'[id].got = "failed" =>
                    /\ poller'[id].pc = "timer5000"
                    /\ poller'[id].attempts = poller[id].attempts
                    /\ st' = st /\ page' = "mounted"
              /\ (poller'[id].got = "ok" /\ ~TerminalAnswer(id)) =>
                    /\ poller'[id].pc = "timer3000"
                    /\ poller'[id].attempts = poller[id].attempts
        /\ (poller[id].pc \in {"timer3000", "timer5000"} /\ poller'[id] # poller[id]) =>
              /\ poller'[id].pc = "get"
              /\ poller'[id].attempts = poller[id].attempts + 1
    ]_vars

\* the second request of the loop failed and the 5 s timer is pending
C12_Witness ==
  /\ poller["init"].pc = "timer5000"
  /\ poller["init"].attempts = 2
  /\ poller["init"].got = "failed"
  /\ page = "mounted"

\* fetchReadyProject of task id settles its GET in this step
FetchStep(id) == task[id].pc = "fetchProject" /\ task'[id].pc # "fetchProject"

\* C13: a fetched or polled record with status error and no deployment URL
\* sends the page to the start route, stops the build progress, leaves no
\* poll pending and sets no preview URL; an error record with a deployment
\* URL keeps the page with projectStatus = error.
C13_FailedBuildRedirects ==
  [][ /\ \A id \in DOMAIN poller :
           (PollStep(id) /\ poller'[id].got = "ok"
              /\ st'.currentProject.status = "error") =>
             /\ poller'[id].pc = "stopped"
             /\ st'.buildProgressInterval = 0 /\ ~st'.showBuildProgress
             /\ IF FailedBuild(st'.currentProject)
                THEN page' = "left" /\ st'.previewUrl = st.previewUrl
                     /\ st'.projectStatus = st.projectStatus
                ELSE page' = "mounted" /\ st'.projectStatus = "error"
      /\ \A id \in DOMAIN task :
           (FetchStep(id) /\ st'.currentProject # st.currentProject
              /\ st'.currentProject.status = "error") =>
             /\ poller' = poller
             /\ st'.buildProgressInterval = 0 /\ ~st'.showBuildProgress
             /\ IF FailedBuild(st'.currentProject)
                THEN page' = "left" /\ st'.previewUrl = st.previewUrl
                     /\ st'.projectStatus = "fetching"
                ELSE page' = "mounted" /\ st'.projectStatus = "error"
    ]_vars

\* the poller got a failed build without a URL and the page was left
C13_Witness ==
  /\ page = "left"
  /\ poller["init"].pc = "stopped" /\ poller["init"].got = "ok"
  /\ FailedBuild(st.currentProject)
  /\ st.previewUrl = ""

\* ---------------------------------------------------------------------------
\* C14

\* the POST /generate requests in flight
GenerateInFlight == {id \in DOMAIN task : task[id].pc = "generate"}

\* C14: at most one POST /generate is in flight whatever the interleaving of
\* initialization, retry and fetch fallback; no step taken while a generation
\* is in progress issues a POST /generate, a step issues at most one, and a
\* call of generateCode made while one is in progress leaves the state as it is.
C14_OneGenerateInFlight ==
  [][ /\ Cardinality(GenerateInFlight') <= 1
      /\ st.isGenerating => issued'["generate"] = issued["generate"]
      /\ issued'["generate"] \in {issued["generate"], issued["generate"] + 1}
      /\ GenerateInFlight' # {} => st'.isGenerating
      /\ st.isGenerating => StartGenerate(st, now).s = st
    ]_vars

\* both the retry and the re-run of the effect created a session and came to
\* generateCode: the retry's POST is in flight, the re-run's call returned
C14_Witness ==
  /\ page = "mounted"
  /\ issued["create"] = 2
  /\ task["retry"].pc = "generate"
  /\ task["rerun"].pc = "done" /\ task["rerun"].kind = "full"
  /\ issued["generate"] = 1
  /\ st.isGenerating

\* ---------------------------------------------------------------------------
\* C15

\* C15: as long as retryConnection has not been called, the initialization
\* sequence was started at most once, by the mount run of the effect and by
\* none of its re-runs, and each backend request of the sequence was issued
\* at most once.
C15_InitializesOncePerPage ==
  task["retry"].runs = 0 =>
    /\ task["init"].runs <= 1
    /\ task["rerun"].runs = 0
    /\ \A q \in Requests : issued[q] <= 1

\* the sequence ran to its end without a retry: its requests went out, the
\* state the effect depends on has changed since the mount run, and no
\* re-run started anything
C15_Witness ==
  /\ page = "mounted"
  /\ task["retry"].runs = 0
  /\ task["init"].pc = "done" /\ task["init"].runs = 1
  /\ st.hasInitialized
  /\ Deps(st) # st.effectDeps
  /\ issued["health"] = 1 /\ issued["create"] = 1 /\ issued["fetchProject"] = 1

\* ---------------------------------------------------------------------------
\* C16

\* the tasks whose request q is in flight
InFlight(q) == {id \in DOMAIN task : task[id].pc = q}

\* a sequence of initialization steps is running in task id
Running(id) == task[id].pc \notin {"idle", "mount", "done"}

\* C16: while retryConnection is in progress a re-run of the initialization
\* effect starts no second sequence: never are two health checks, two
\* session creations, or the retry and a re-run of the effect in flight
\* together.
C16_NoSecondSequenceDuringRetry ==
  /\ Cardinality(InFlight("health")) <= 1
  /\ Cardinality(InFlight("create")) <= 1
  /\ ~(Running("retry") /\ Running("rerun"))

\* ---------------------------------------------------------------------------
\* C17

\* C17: over the lifetime of the page, retries included, POST /session/create
\* is issued at most once, and not at all when the navigation supplied a
\* session id.
C17_SessionCreatedAtMostOnce ==
  /\ issued["create"] <= 1
  /\ nav.sessionId # Null => issued["create"] = 0

\* a second POST /session/create goes out only in runs where the effect
\* started a sequence of its own beside a retry
C17_SecondCreateNeedsReRun ==
  /\ issued["create"] > 1 => task["rerun"].runs > 0
  /\ nav.sessionId # Null => issued["create"] = 0

\* ---------------------------------------------------------------------------
\* C18

\* a session id made up by the page after a failed POST /session/create
IsFallbackId(sid) == sid \in {"project-p42", "temp-t"}

\* the settling of a POST /session/create by failure
CreateFails(id) ==
  /\ task[id].pc = "create" /\ task'[id].pc # "create"
  /\ IsFallbackId(st'.sessionId)

\* C18: a failed POST /session/create makes the session id project-<projectId>
\* when the page has a project id and a temp- token otherwise, and once the
\* session id is such a fallback id it never changes again, retries included.
C18_FallbackIdIsKept ==
  [][ /\ \A id \in DOMAIN task :
           CreateFails(id) => st'.sessionId = FallbackSessionId
      /\ IsFallbackId(st.sessionId) => st'.sessionId = st.sessionId
    ]_vars

\* the fallback id changes only in runs where the effect started a sequence
\* of its own beside a retry
C18_ChangeNeedsReRun ==
  [][ (IsFallbackId(st.sessionId) /\ st'.sessionId # st.sessionId)
        => task["rerun"].runs > 0 ]_vars

\* ---------------------------------------------------------------------------
\* C19

\* C19: a failing POST /session/create is a silent downgrade: the step that
\* settles it sets hasSessionSupport to false, leaves the error text and the
\* message list as they are, keeps the page, and goes on to load the project
\* (GET of the project's messages when they were not loaded yet); and while
\* the session id is a fallback id hasSessionSupport is false.
C19_CreateFailureIsSilent ==
  [][ /\ \A id \in DOMAIN task :
           CreateFails(id) =>
             /\ ~st'.hasSessionSupport
             /\ st'.error = st.error
             /\ st'.messages = st.messages
             /\ page' = "mounted"
             /\ (nav.projectId # Null /\ ~st.projectLoaded)
                  => task'[id].pc = "projectMessages"
      /\ IsFallbackId(st'.sessionId) => ~st'.hasSessionSupport
    ]_vars

\* the last part of C19 as a state predicate, for the runs with retries
C19_FallbackMeansNoSupport == IsFallbackId(st.sessionId) => ~st.hasSessionSupport

\* the create failed, the project was loaded after it, and the chat is in
\* use under the fallback id with no error shown
C19_Witness ==
  /\ page = "mounted"
  /\ st.sessionId = "project-p42" /\ ~st.hasSessionSupport
  /\ st.error = ""
  /\ task["init"].pc = "done"
  /\ st.currentProject # NoProject
  /\ submits > 0

\* ---------------------------------------------------------------------------
\* C20

\* the textarea and the submit button are both enabled
InputEnabled(s) == ~TextareaDisabled(s) /\ ~SubmitDisabled(s)

\* C20: whenever the prompt input and the submit button are enabled, a
\* project record is mirrored in currentProject and its status is ready.
C20_InputNeedsReadyProject ==
  (page = "mounted" /\ InputEnabled(st)) =>
    (st.currentProject # NoProject /\ st.currentProject.status = "ready")

\* once a record is mirrored, the input is enabled only with status ready
C20_LoadedRecordMustBeReady ==
  (page = "mounted" /\ InputEnabled(st) /\ st.currentProject # NoProject) =>
    st.currentProject.status = "ready"

\* ---------------------------------------------------------------------------
\* C21

\* poll loop id issues a status request in this step
PollStepIssued(id) == poller'[id].pc = "get" /\ poller[id].pc # "get"

\* a timer of a poll loop is pending
PollTimerPending == \E id \in DOMAIN poller : poller[id].pc \in {"timer3000", "timer5000"}

\* C21: once the component is torn down no timer or interval it created is
\* pending (build-progress intervals, the poller's retry timeouts, the
\* hide-progress timeouts), no status request is issued any more and no
\* message is appended.
C21_TeardownReleasesTimers ==
  [][ page' = "left" =>
        /\ ~PollTimerPending'
        /\ st'.intervals = <<>>
        /\ st'.hideTimers = 0
        /\ page = "left" =>
             /\ \A id \in DOMAIN poller : ~PollStepIssued(id)
             /\ st'.messages = st.messages
    ]_vars

\* the second half of C21 alone: no status request after the teardown
C21_NoRequestAfterTeardown ==
  [][ page = "left" => \A id \in DOMAIN poller : ~PollStepIssued(id) ]_vars

\* ---------------------------------------------------------------------------
\* C22

\* C22: whenever a health check is in flight, its ending by the 5 s timeout
\* leaves the page in the state its ending by a refused connection leaves:
\* server unhealthy, the same error text, the same retry buttons, and
\* projectStatus = error.
C22_TimeoutIsConnectionFailure ==
  \A id \in DOMAIN task :
    (page = "mounted" /\ task[id].pc = "health") =>
      LET timedOut == HealthFailed(st, "timeout", task[id].kind)
          refused == HealthFailed(st, "refused", task[id].kind)
      IN /\ timedOut = refused
         /\ timedOut.isServerHealthy = "false"
         /\ RetryOffered(timedOut) = RetryOffered(refused)
         /\ timedOut.projectStatus = "error"

\* what the two endings do share when the effect's full sequence asked
C22_TimeoutSharesAllButText ==
  \A id \in DOMAIN task :
    (page = "mounted" /\ task[id].pc = "health") =>
      LET timedOut == HealthFailed(st, "timeout", task[id].kind)
          refused == HealthFailed(st, "refused", task[id].kind)
      IN /\ [timedOut EXCEPT !.error = ""] = [refused EXCEPT !.error = ""]
         /\ timedOut.isServerHealthy = "false"
         /\ RetryOffered(timedOut) = RetryOffered(refused)
         /\ task[id].kind = "full" => timedOut.projectStatus = "error"

\* ---------------------------------------------------------------------------
\* C23

\* C23: whenever the GET of a project's messages is in flight, its ending by
\* a 404 empties the message list and leaves error and projectStatus as they
\* are; whenever the GET of the project is in flight, its ending by a 404 sets
\* the not-found text and projectStatus = error.
C23_NotFoundHandling ==
  \A id \in DOMAIN task :
    /\ (page = "mounted" /\ task[id].pc = "projectMessages") =>
         LET s == ProjectMessagesEnded(st, "404")
         IN /\ s.messages = <<>>
            /\ s.error = st.error
            /\ s.projectStatus = st.projectStatus
    /\ (page = "mounted" /\ task[id].pc = "fetchProject") =>
         LET s == FetchFailed(st, "404")
         IN /\ s.error = "Project with ID 42 not found."
            /\ s.projectStatus = "error"

\* the messages were not found and then the project was not found: the list
\* is empty and the not-found text is shown with projectStatus = error
C23_Witness ==
  /\ page = "mounted"
  /\ task["init"].pc = "done"
  /\ st.projectLoaded /\ st.messages = <<>>
  /\ issued["projectMessages"] = 1 /\ issued["fetchProject"] = 1
  /\ st.error = FetchErrorText("404")
  /\ st.projectStatus = "error"

\* ---------------------------------------------------------------------------
\* C24

\* handleSubmit is waiting for a saveMessage of the turn
SavingTurn == sub.pc \in {"saveUser", "saveAssistant"}

\* C24: a failed save of a chat turn is not surfaced.  While a save is in
\* flight its failure leaves the component as its success does; the step
\* that settles the save of the user's message leaves the error state alone
\* and issues the modification request (with the streaming placeholder as
\* the only new message), and the step that settles the save of the
\* assistant's message changes nothing and goes on to the preview refresh.
C24_SaveFailureIsNotSurfaced ==
  [][ /\ (page = "mounted" /\ SavingTurn) => SaveSettled(st, FALSE) = SaveSettled(st, TRUE)
      /\ (sub.pc = "saveUser" /\ sub'.pc # "saveUser") =>
           /\ page' = "mounted"
           /\ st'.error = st.error
           /\ IF UseStreaming(sub.cl)
              THEN sub'.pc = "fetch" /\ st' = OpenStream(st, now)
                   /\ Len(streamReqs') = Len(streamReqs) + 1
              ELSE sub'.pc = "modify" /\ st' = st
      /\ (sub.pc = "saveAssistant" /\ sub'.pc # "saveAssistant") =>
           /\ st' = st
           /\ sub'.pc = "refreshNonStreaming"
    ]_vars

\* the user's message of a page with a project was saved and the
\* modification request is in flight, no error shown
C24_Witness ==
  /\ page = "mounted"
  /\ nav.projectId # Null
  /\ sub.pc \in {"fetch", "modify"}
  /\ st.isLoading
  /\ st.error = ""

\* ---------------------------------------------------------------------------
\* C25

\* the health check of retryConnection settles with success in this step
RetryHealthSucceeds ==
  /\ task["retry"].pc = "health" /\ task'["retry"].pc # "health"
  /\ st'.isServerHealthy = "true"

\* C25: once the server is marked unhealthy it stays so, with the input
\* disabled and the retry button shown (disabled only while a retry runs),
\* until the health check of a retryConnection succeeds; and while the
\* server is marked unhealthy a GET /health is issued only by the click on
\* retry.
C25_OfflineUntilRetrySucceeds ==
  [][ st.isServerHealthy = "false" =>
        /\ st'.isServerHealthy = "false" \/ RetryHealthSucceeds
        /\ st'.isServerHealthy = "false" =>
             /\ TextareaDisabled(st')
             /\ RetryOffered(st') \/ st'.isRetrying
        /\ issued'["health"] # issued["health"] =>
             task'["retry"].runs = task["retry"].runs + 1
    ]_vars

\* the offline state is left otherwise, or a health check is issued without
\* a click, only in runs where the effect started a sequence of its own
\* beside a retry
C25_OtherwiseNeedsReRun ==
  [][ st.isServerHealthy = "false" =>
        \/ task'["rerun"].runs > 0
        \/ /\ st'.isServerHealthy = "false" \/ RetryHealthSucceeds
           /\ st'.isServerHealthy = "false" =>
                /\ TextareaDisabled(st')
                /\ RetryOffered(st') \/ st'.isRetrying
           /\ issued'["health"] # issued["health"] =>
                task'["retry"].runs = task["retry"].runs + 1
    ]_vars

\* ---------------------------------------------------------------------------
\* C26

\* the values of projectStatus the page has a display for
DefinedStatuses == {"idle", "fetching", "loading", "ready", "error"}

\* C26: no failure of a backend call or of the stream escapes its operation:
\* the page is never taken down by an uncaught error and projectStatus is
\* always one of the defined states.
C26_NoFailureEscapes ==
  /\ page # "crashed"
  /\ st.projectStatus \in DefinedStatuses

\* the page is taken down only by the failure of a streaming request, and
\* projectStatus is always one of the defined states
C26_OnlyStreamFailureEscapes ==
  [][ /\ page' = "crashed" => (page = "crashed" \/ sub.pc \in {"fetch", "read"})
      /\ st'.projectStatus \in DefinedStatuses
    ]_vars

\* ---------------------------------------------------------------------------
\* C27

\* task id issues request q in this step
Enters(id, q) == task'[id].pc = q /\ task[id].pc # q

\* the session id initializeSession works with
SessionIdInUse(s) == IF nav.sessionId # Null THEN nav.sessionId ELSE s.sessionId

\* session support is on and the session id is one the backend gave
HistoryApplies(s) ==
  /\ s.hasSessionSupport
  /\ SessionIdInUse(s) # Null
  /\ ~StartsWithTemp(SessionIdInUse(s)) /\ ~StartsWithProject(SessionIdInUse(s))

\* the order and the conditions of the requests of the session bootstrap
BootstrapRequests ==
  \A id \in DOMAIN task :
    /\ Enters(id, "history") => HistoryApplies(st')
    /\ Enters(id, "summary") => task[id].pc = "history"
    /\ Enters(id, "stats") => task[id].pc = "summary"
    /\ Enters(id, "projectMessages") => ~HistoryApplies(st')

\* the project's messages are requested only while none have been requested
\* since the page was opened or last retried: none is in flight, and none has
\* settled (projectLoaded, which only a retry click resets)
ProjectMessagesOnce ==
  /\ \A id \in DOMAIN task :
       Enters(id, "projectMessages") =>
         /\ ~st.projectLoaded
         /\ \A o \in DOMAIN task : task[o].pc # "projectMessages"
  /\ \A id \in DOMAIN task :
       (task[id].pc = "projectMessages" /\ task'[id].pc # "projectMessages")
         => st'.projectLoaded
  /\ (st.projectLoaded /\ ~st'.projectLoaded)
       => task'["retry"].runs = task["retry"].runs + 1

\* C27: the history, summary and statistics requests of the session
\* bootstrap are issued in that order and only when session support is on
\* and the session id has neither the temp- nor the project- prefix;
\* otherwise the project's messages are requested, and they are requested at
\* most once between the opening of the page and a retry and between retries.
C27_BootstrapLoads ==
  [][ BootstrapRequests /\ ProjectMessagesOnce ]_vars

\* the same, where the project-messages requests are looked at only in the
\* runs in which the effect started no sequence of its own beside a retry
C27_BootstrapLoadsWithoutReRun ==
  [][ /\ BootstrapRequests
      /\ task'["rerun"].runs = 0 => ProjectMessagesOnce
    ]_vars

\* ---------------------------------------------------------------------------
\* C28

\* the poll loops with a request or a timer pending
ActivePollers ==
  {id \in DOMAIN poller : poller[id].pc \in {"get", "timer3000", "timer5000"}}

\* C28: at most one poll loop of the page's project has a request or a
\* timer pending.
C28_OnePollingLoop == Cardinality(ActivePollers) <= 1

\* ---------------------------------------------------------------------------
\* C29

\* refreshProject is invoked in this step
RefreshInvoked == task'["refresh"].runs = task["refresh"].runs + 1

\* C29: every invocation of refreshProject on a page with a project id
\* issues a GET for the project, whatever projectStatus is and whether or
\* not the project was fetched before.
C29_RefreshFetches ==
  [][ RefreshInvoked =>
        /\ task'["refresh"].pc = "fetchProject"
        /\ issued'["fetchProject"] = issued["fetchProject"] + 1
        /\ st'.projectStatus = "fetching"
    ]_vars

\* an invocation of refreshProject issues the GET exactly when the project
\* was not fetched before or the page still shows projectStatus = idle
C29_RefreshFetchesOnlyAtFirst ==
  [][ RefreshInvoked =>
        IF st.currentProjectId = nav.projectId /\ st.projectStatus # "idle"
        THEN /\ task'["refresh"].pc = "done"
             /\ issued' = issued
             /\ st' = [st EXCEPT !.error = ""]
        ELSE /\ task'["refresh"].pc = "fetchProject"
             /\ issued'["fetchProject"] = issued["fetchProject"] + 1
    ]_vars

\* ---------------------------------------------------------------------------
\* C30

\* a request of the initialization code or of a poll loop, or a poll timer,
\* is pending
SomethingPending ==
  \/ \E id \in DOMAIN task : task[id].pc \in Requests
  \/ ActivePollers # {}

\* C30: while the page is mounted and projectStatus is loading or fetching,
\* a request or a timer is pending.
C30_BusyStatusHasPendingWork ==
  (page = "mounted" /\ st.projectStatus \in {"loading", "fetching"}) => SomethingPending

\* the same for the runs without a retryConnection
C30_BusyWithoutRetry ==
  (page = "mounted" /\ st.projectStatus \in {"loading", "fetching"}
     /\ task["retry"].runs = 0) => SomethingPending

\* ---------------------------------------------------------------------------
\* C31

\* the assistant messages of a message list
AssistantMessagesOf(msgs) == SelectSeq(msgs, LAMBDA m : m.type = "assistant")

\* the non-streaming submit leaves POST /modify, or the save of its error turn
LeavesModify == sub.pc = "modify" /\ sub'.pc # "modify"
LeavesErrorSave == sub.pc = "saveNonStreamingError" /\ sub'.pc # "saveNonStreamingError"

\* C31: a non-streaming submit whose modification request fails appends one
\* assistant error message and saves one assistant error turn: the settling
\* of POST /modify appends at most one assistant message, and when the save
\* of the error turn has settled no further assistant message is appended
\* and no further save is started.
C31_OneErrorTurn ==
  [][ /\ LeavesModify =>
           Len(AssistantMessagesOf(st'.messages)) <= Len(AssistantMessagesOf(st.messages)) + 1
      /\ LeavesErrorSave =>
           /\ Len(AssistantMessagesOf(st'.messages)) = Len(AssistantMessagesOf(st.messages))
           /\ sub'.pc # "saveSubmitError" ]_vars

\* a successful non-streaming submit appends one assistant message
C31_OneReplyOnSuccess ==
  [][ (LeavesModify /\ st'.error # "Failed to apply changes"
         /\ sub'.pc # "saveNonStreamingError") =>
        Len(AssistantMessagesOf(st'.messages)) = Len(AssistantMessagesOf(st.messages)) + 1 ]_vars

\* ---------------------------------------------------------------------------
\* C32

\* a request of a submit cycle for the modification is in flight
ModificationInFlight == sub.pc \in {"fetch", "read", "modify"}

\* C32: submit cycles never overlap.  While a cycle is in flight isLoading is
\* set; a call of handleSubmit with an empty or whitespace-only prompt, or
\* with isLoading set, appends no message, issues no request and changes no
\* state; and a cycle starts only from a non-empty prompt while no cycle, and
\* so no modification request, is in flight.
C32_SubmitCyclesNeverOverlap ==
  /\ [](sub.pc # "idle" => st.isLoading)
  /\ [][ /\ (keys' # keys /\ (Trim(st.prompt) = "" \/ st.isLoading)) =>
              UNCHANGED <<st, sub, stream, streamReqs, issued, submits, now, page>>
         /\ submits' # submits =>
              /\ sub.pc = "idle" /\ ~ModificationInFlight
              /\ Trim(st.prompt) # "" ]_vars

\* Enter was pressed on an empty or whitespace-only prompt and no cycle began
C32_Witness == keys > 0 /\ submits = 0 /\ st.prompt = "ws"

\* ---------------------------------------------------------------------------
\* C33

\* no submit cycle is running and the page shows none
CycleEnded ==
  /\ sub.pc = "idle"
  /\ ~st.isLoading /\ ~st.isStreamingResponse
  /\ st.buildProgressInterval = 0 /\ ~st.showBuildProgress /\ st.intervals = <<>>

\* C33: every submit cycle that starts eventually ends with isLoading and
\* isStreamingResponse false and build progress stopped.
C33_EveryCycleEnds == (sub.pc # "idle") ~> CycleEnded

\* every cycle ends in this way unless the render threw
C33_EndsUnlessCrashed == (sub.pc # "idle") ~> (CycleEnded \/ page = "crashed")

\* ---------------------------------------------------------------------------
\* C34

\* C34: at most one build-progress interval is live; when the ref holds no
\* handle (after stopBuildProgress, or after the interval ended itself) no
\* interval is live, and no interval fires then, so that no build-step or
\* build-complete message is appended after the stop.
C34_OneBuildProgressInterval ==
  /\ [](Len(st.intervals) <= 1 /\ (st.buildProgressInterval = 0 => st.intervals = <<>>))
  /\ [][ticks' # ticks => st.buildProgressInterval # 0]_vars

\* an interval fired while the ref held no handle
C34_TickAfterStop == [][ticks' # ticks => st.buildProgressInterval # 0]_vars

\* one interval is live for each handle the ref holds where startBuildProgress
\* is not called twice in a row: the submit cycles
C34_OneIntervalInSubmitCycles ==
  /\ Len(st.intervals) <= 1
  /\ st.buildProgressInterval = 0 => st.intervals = <<>>

\* ---------------------------------------------------------------------------
\* C35

\* C35: when POST /generate fails, projectStatus becomes error and the project
\* is read again; when that GET has settled the generation flag is cleared,
\* and the page has been left if the record has no deployment URL or could
\* not be read, and otherwise stays with projectStatus = error.
C35_FailedGeneration ==
  [][ \A id \in DOMAIN task :
        /\ (task[id].pc = "generate" /\ task'[id].pc = "generateFailed") =>
             st'.projectStatus = "error"
        /\ (task[id].pc = "generateFailed" /\ task'[id].pc # "generateFailed") =>
             /\ ~st'.isGenerating
             /\ task'[id].got \in {"nourl", "failed", "url"}
             /\ task'[id].got \in {"nourl", "failed"} => page' = "left"
             /\ task'[id].got = "url" =>
                  page' = "mounted" /\ st'.projectStatus = "error" ]_vars

\* a failed generation after which the page stayed, and one after which the
\* page was left
C35_Witness ==
  \E id \in DOMAIN task :
    /\ task[id].got = "url" /\ page = "mounted"
    /\ st.projectStatus = "error" /\ ~st.isGenerating
C35_WitnessRedirect ==
  \E id \in DOMAIN task : task[id].got = "nourl" /\ page = "left" /\ ~st.isGenerating

\* the same beside retryConnection, whose click sets projectStatus to loading
\* while the GET after the failed generation is pending
C35_FailedGenerationBesideRetry ==
  [][ \A id \in DOMAIN task :
        /\ (task[id].pc = "generate" /\ task'[id].pc = "generateFailed") =>
             st'.projectStatus = "error"
        /\ (task[id].pc = "generateFailed" /\ task'[id].pc # "generateFailed") =>
             /\ ~st'.isGenerating
             /\ task'[id].got \in {"nourl", "failed"} => page' = "left"
             /\ task'[id].got = "url" =>
                  /\ page' = "mounted"
                  /\ st'.projectStatus = st.projectStatus
                  /\ task["retry"].runs = 0 => st'.projectStatus = "error" ]_vars

\* ---------------------------------------------------------------------------
\* C36

\* the conversation of state s is empty: no message, no summary, no
\* statistics, and a recorded count of 0
ConversationEmpty(s) ==
  /\ s.messages = <<>> /\ s.currentSummary = Null /\ s.conversationStats = Null
  /\ s.messageCountRef = 0

\* C36: clearConversation does nothing without a session id; when its delete
\* request has succeeded the conversation is empty and nothing else changed;
\* when it has failed only the error state is set.
C36_ClearConversation ==
  [][ /\ (clr'.runs # clr.runs /\ st.sessionId = Null) =>
           (clr'.pc = "idle" /\ UNCHANGED <<st, sub, stream, issued, streamReqs, page>>)
      /\ (clr.pc = "delete" /\ clr'.pc = "idle") =>
           \/ /\ ConversationEmpty(st')
              /\ st' = [st EXCEPT !.messages = <<>>, !.currentSummary = Null,
                                  !.conversationStats = Null, !.messageCountRef = 0]
           \/ st' = [st EXCEPT !.error = "Failed to clear conversation"] ]_vars

\* a conversation with a recorded count has been cleared by a delete request
C36_Witness ==
  /\ clr.runs = 1 /\ clr.pc = "idle" /\ submits > 0
  /\ ConversationEmpty(st) /\ st.sessionId # Null
  /\ st.error # "Failed to clear conversation"

\* the clear button was clicked before the page had a session id
C36_WitnessNoSession == clr.runs = 1 /\ clr.pc = "idle" /\ st.sessionId = Null

\* ---------------------------------------------------------------------------
\* C37

\* C37: every operation classifies the session identifier the same way.  The
\* test of handleSubmit for the streaming endpoint agrees with the test of
\* saveMessage and clearConversation for the session-scoped endpoints; a
\* submit streams only with session support and an identifier without the
\* temp- or project- prefix; and a submit that starts on a page whose history
\* was requested from the session-scoped endpoints takes the streaming
\* endpoint.
C37_OneClassification ==
  /\ [](UseStreaming(Closure(st)) <=> SessionScoped(st.hasSessionSupport, st.sessionId))
  /\ [][ /\ (sub.pc # "fetch" /\ sub'.pc = "fetch") =>
              SessionScoped(sub'.cl.hasSessionSupport, sub'.cl.sessionId)
         /\ (submits' # submits /\ issued["history"] > 0) => UseStreaming(sub'.cl) ]_vars

\* the tests of handleSubmit, saveMessage and clearConversation agree on
\* every state of the page, and with a fallback identifier a submit does not
\* stream
C37_SubmitSaveClearAgree ==
  /\ UseStreaming(Closure(st)) <=> SessionScoped(st.hasSessionSupport, st.sessionId)
  /\ (sub.pc \in {"fetch", "read"}) => ~IsFallbackId(sub.cl.sessionId)
  /\ IsFallbackId(st.sessionId) => ~UseStreaming(Closure(st))

\* ---------------------------------------------------------------------------
\* C38

\* handleStreamingResponse has returned and checkAndUpdateSummary has decided
DecidesSummary ==
  /\ sub.pc \in {"fetch", "read", "refresh"}
  /\ sub'.pc \in {"sumPost", "idle"}
  /\ page' = "mounted"

\* the update of the summary has gone through
SummaryUpdated == sub.pc = "sumStats" /\ sub'.pc = "idle"

\* C38: after a streamed submit a summary update is requested exactly when
\* session support is on and the message list, the messages of that submit
\* included, has a positive length that is a multiple of 5 and differs from
\* the recorded count; after the update the recorded count is that length.
C38_SummaryEveryFiveMessages ==
  [][ /\ DecidesSummary =>
           (sub'.pc = "sumPost" <=>
              /\ st.hasSessionSupport
              /\ Len(st'.messages) > 0 /\ Len(st'.messages) % 5 = 0
              /\ Len(st'.messages) # st.messageCountRef)
      /\ SummaryUpdated => st'.messageCountRef = Len(st'.messages) ]_vars

\* the same for the length the message list had when the submit was clicked
C38_CountsAtTheClick ==
  [][ /\ DecidesSummary =>
           (sub'.pc = "sumPost" <=>
              /\ sub.cl.hasSessionSupport
              /\ sub.cl.msgLen > 0 /\ sub.cl.msgLen % 5 = 0
              /\ sub.cl.msgLen # st.messageCountRef)
      /\ SummaryUpdated => st'.messageCountRef = sub.cl.msgLen ]_vars

====
